---- MODULE Spec2Model ----
(***************************************************************************)
(* Temporal organisational graph: identity disambiguation (clustering of   *)
(* employment records), ingest into the people / organizations /           *)
(* employment tables, preseed of the unit hierarchy, the two cached graphs *)
(* and the shortest-path queries of the facade.                            *)
(*                                                                         *)
(* Dates are day numbers.  A job title is a sequence of lower-case words;  *)
(* None stands for Python's None / SQL NULL.  Row ids are positions in the *)
(* table sequences (SERIAL columns).                                       *)
(***************************************************************************)
EXTENDS Integers, Sequences, FiniteSets, TLC

VARIABLES people, orgs, employment,
          fullCache, collCache,
          op, args, ret, hist,
          inRecs, clusters,
          calls, heap, pool

vars == <<people, orgs, employment, fullCache, collCache, op, args, ret,
          hist, inRecs, clusters, calls, heap, pool>>

\* no call in flight, no connection pool in use
NoCalls == <<>>
NoPool == <<>>

None == "None"
\* a NULL rank (titles are sequences, so NULL is the one-marker sequence)
NullRank == <<None>>
\* organizations.metadata without a 'parts' key
NoParts == 0 - 1
\* a NULL tenure_days
NoDays == 0 - 1
\* a graph cache holding None
NoGraph == [built |-> FALSE, names |-> <<>>, edges |-> <<>>]

\* ------------------------------------------------------------------ bounds
MaxRecs == 3
MaxWrites == 2
MaxCands == 3
MaxWords == 2
MaxUnits == 2

\* ------------------------------------------------------- generic helpers
Range(s) == {s[i] : i \in 1..Len(s)}

RECURSIVE SumSeq(_)
SumSeq(s) == IF s = <<>> THEN 0 ELSE Head(s) + SumSeq(Tail(s))

SeqsUpTo(S, n) == UNION {[1..k -> S] : k \in 0..n}

\* sorted(): stable insertion sort of [k, v] entries, ascending in k
RECURSIVE InsertKeyed(_, _)
InsertKeyed(sorted, x) ==
    IF sorted = <<>> THEN <<x>>
    ELSE IF Head(sorted).k <= x.k
         THEN <<Head(sorted)>> \o InsertKeyed(Tail(sorted), x)
         ELSE <<x>> \o sorted

RECURSIVE SortKeyed(_)
SortKeyed(s) ==
    IF s = <<>> THEN <<>>
    ELSE InsertKeyed(SortKeyed(SubSeq(s, 1, Len(s) - 1)), s[Len(s)])

\* sorted(s, key=...) where keys[i] is the key of s[i]
SortedByKeys(s, keys) ==
    LET srt == SortKeyed([i \in 1..Len(s) |-> [k |-> keys[i], v |-> s[i]]])
    IN [i \in 1..Len(s) |-> srt[i].v]

\* words[i..i+Len(ph)-1] = ph
MatchAt(words, ph, i) ==
    /\ i + Len(ph) - 1 <= Len(words)
    /\ \A k \in 1..Len(ph) : words[i + k - 1] = ph[k]

\* " ph " in " words " (both padded with single blanks)
ContainsPhrase(words, ph) == \E i \in 1..Len(words) : MatchAt(words, ph, i)

\* str.replace(" ph ", " "): non-overlapping matches, left to right; the
\* blank that ends one match cannot begin the next one.
RECURSIVE ReplacePhraseFrom(_, _, _, _)
ReplacePhraseFrom(words, ph, i, blocked) ==
    IF i > Len(words) THEN <<>>
    ELSE IF ~blocked /\ MatchAt(words, ph, i)
         THEN ReplacePhraseFrom(words, ph, i + Len(ph), TRUE)
         ELSE <<words[i]>> \o ReplacePhraseFrom(words, ph, i + 1, FALSE)

ReplacePhrase(words, ph) == ReplacePhraseFrom(words, ph, 1, FALSE)

\* ------------------------------------------------------------ RankParser
LEVEL_MODIFIERS ==
    << [kw |-> <<"junior">>, value |-> 0 - 2],
       [kw |-> <<"jr">>, value |-> 0 - 2],
       [kw |-> <<"associate">>, value |-> 0 - 1],
       [kw |-> <<"assistant">>, value |-> 0 - 1],
       [kw |-> <<"senior">>, value |-> 2],
       [kw |-> <<"sr">>, value |-> 2],
       [kw |-> <<"lead">>, value |-> 3],
       [kw |-> <<"principal">>, value |-> 4],
       [kw |-> <<"(covering)">>, value |-> 0] >>

ROLE_KEYWORDS ==
    << [kw |-> <<"intern">>, value |-> 1],
       [kw |-> <<"officer">>, value |-> 5],
       [kw |-> <<"executive">>, value |-> 5],
       [kw |-> <<"specialist">>, value |-> 6],
       [kw |-> <<"analyst">>, value |-> 6],
       [kw |-> <<"engineer">>, value |-> 7],
       [kw |-> <<"consultant">>, value |-> 7],
       [kw |-> <<"scientist">>, value |-> 8],
       [kw |-> <<"counsel">>, value |-> 8],
       [kw |-> <<"manager">>, value |-> 10] >>

\* chars is len() of the phrase as one string
MANAGEMENT_TIERS ==
    << [kw |-> <<"head">>, chars |-> 4, value |-> 15],
       [kw |-> <<"assistant", "director">>, chars |-> 18, value |-> 18],
       [kw |-> <<"director">>, chars |-> 8, value |-> 20],
       [kw |-> <<"deputy", "director">>, chars |-> 15, value |-> 19],
       [kw |-> <<"senior", "director">>, chars |-> 15, value |-> 22],
       [kw |-> <<"vice", "president">>, chars |-> 14, value |-> 25],
       [kw |-> <<"vp">>, chars |-> 2, value |-> 25],
       [kw |-> <<"chief">>, chars |-> 5, value |-> 30] >>

PERMISSIBLE_OVERLAP_KEYWORDS ==
    { <<"board", "member">>, <<"advisor">>, <<"adviser">>, <<"consultant">>,
      <<"non-executive">>, <<"fellow">>, <<"mentor">> }

\* sorted(items, key=len, reverse=True): stable, longest phrase first
SortTiers(s) == SortedByKeys(s, [i \in 1..Len(s) |-> 0 - s[i].chars])

\* first entry of table whose phrase occurs in words, 0 if none
RECURSIVE FirstMatch(_, _, _)
FirstMatch(table, words, i) ==
    IF i > Len(table) THEN 0
    ELSE IF ContainsPhrase(words, table[i].kw) THEN i
         ELSE FirstMatch(table, words, i + 1)

RECURSIVE ModifierSum(_, _)
ModifierSum(words, i) ==
    IF i > Len(LEVEL_MODIFIERS) THEN 0
    ELSE (IF ContainsPhrase(words, LEVEL_MODIFIERS[i].kw)
          THEN LEVEL_MODIFIERS[i].value ELSE 0) + ModifierSum(words, i + 1)

parse_rank(title) ==
    IF title = NullRank \/ title = <<>> THEN 0
    ELSE LET tiers == SortTiers(MANAGEMENT_TIERS)
             t == FirstMatch(tiers, title, 1)
             afterTier == IF t # 0 THEN ReplacePhrase(title, tiers[t].kw)
                          ELSE title
             r == IF t # 0 THEN 0 ELSE FirstMatch(ROLE_KEYWORDS, title, 1)
             afterRole == IF r # 0
                          THEN ReplacePhrase(afterTier, ROLE_KEYWORDS[r].kw)
                          ELSE afterTier
             base == IF t # 0 THEN tiers[t].value
                     ELSE IF r # 0 THEN ROLE_KEYWORDS[r].value ELSE 0
         IN base + ModifierSum(afterRole, 1)

is_permissible_overlap(title) ==
    IF title = NullRank \/ title = <<>> THEN FALSE
    ELSE \E kw \in PERMISSIBLE_OVERLAP_KEYWORDS : ContainsPhrase(title, kw)

\* ------------------------------------------------- organizations table
\* SELECT * FROM organizations WHERE url = %s (0 when no row; NULL matches
\* nothing)
find_by_url(os, url) ==
    IF url = None \/ ~(\E i \in 1..Len(os) : os[i].url = url) THEN 0
    ELSE CHOOSE i \in 1..Len(os) : os[i].url = url

\* the recursive member of the ancestors CTE: parent, grandparent, ...;
\* a 0 entry marks a walk that does not end (a cycle in parent_org_id)
RECURSIVE AncestorWalk(_, _, _)
AncestorWalk(os, id, fuel) ==
    IF os[id].parent_org_id = 0 THEN <<>>
    ELSE IF fuel = 0 THEN <<0>>
         ELSE <<os[id].parent_org_id>>
              \o AncestorWalk(os, os[id].parent_org_id, fuel - 1)

\* get_all_ancestors(org_id, sort=True): [ok, rows]; ok is FALSE when the
\* query does not end or when a row has no 'parts' (len(None) raises)
get_all_ancestors(os, id) ==
    LET walk == AncestorWalk(os, id, Len(os))
        rows == SelectSeq(walk, LAMBDA a : a # id)
    IN IF 0 \in Range(walk) THEN [ok |-> FALSE, rows |-> <<>>]
       ELSE IF \E k \in 1..Len(rows) : os[rows[k]].parts = NoParts
            THEN [ok |-> FALSE, rows |-> <<>>]
            ELSE [ok |-> TRUE,
                  rows |-> SortedByKeys(rows, [i \in 1..Len(rows) |->
                                                   os[rows[i]].parts])]

\* OrganisationsRepository.create: upsert on url
OrgCreate(os, data) ==
    LET ex == find_by_url(os, data.url)
    IN IF ex # 0
       THEN [orgs |-> [os EXCEPT ![ex] =
                        [name |-> data.name,
                         url |-> data.url,
                         parent_org_id |->
                             IF data.parent_org_id # 0
                             THEN data.parent_org_id
                             ELSE os[ex].parent_org_id,
                         parts |-> IF data.parts # NoParts THEN data.parts
                                   ELSE os[ex].parts]],
             id |-> ex]
       ELSE [orgs |-> Append(os, [name |-> data.name, url |-> data.url,
                                  parent_org_id |-> data.parent_org_id,
                                  parts |-> data.parts]),
             id |-> Len(os) + 1]

\* ------------------------------------------------- DisambiguationService
SAME_PARENT_MINISTRY == 5
LOGICAL_PROMOTION == 3
LATERAL_MOVE == 1
ILLOGICAL_DEMOTION == 0 - 10
IMMEDIATE_SUCCESSION == 4
QUICK_SUCCESSION == 2
PERMISSIBLE_OVERLAP_PENALTY == 0 - 2
MINIMUM_COHESION_THRESHOLD == 1

\* mutant: the interval ends are exclusive
_has_temporal_overlap_excl(r1, r2) ==
    r1.start_date < r2.end_date /\ r1.end_date > r2.start_date

_has_temporal_overlap(r1, r2) ==
    r1.start_date <= r2.end_date /\ r1.end_date >= r2.start_date

\* mutant: every overlap is a hard conflict
_is_hard_conflict_any(r1, r2) ==
    _has_temporal_overlap(r1, r2)

_is_hard_conflict(r1, r2) ==
    IF ~_has_temporal_overlap(r1, r2) THEN FALSE
    ELSE ~is_permissible_overlap(r1.rank) /\ ~is_permissible_overlap(r2.rank)

\* _enrich_record: [ok, rec]; ok is FALSE when the ancestors lookup raises
_enrich_record(os, raw, idx) ==
    LET org == find_by_url(os, raw.url)
        anc == IF org # 0 THEN get_all_ancestors(os, org)
               ELSE [ok |-> TRUE, rows |-> <<>>]
        ministry == IF org = 0 THEN "UNKNOWN"
                    ELSE IF anc.rows # <<>> THEN os[anc.rows[1]].name
                         ELSE os[org].name
    IN [ok |-> anc.ok,
        rec |-> [start_date |-> raw.start_date,
                 end_date |-> raw.end_date,
                 rank_score |-> parse_rank(raw.rank),
                 parent_ministry |-> ministry,
                 rank |-> raw.rank,
                 idx |-> idx]]

_calculate_cohesion_score(new, old) ==
    LET gap == new.start_date - old.end_date
    IN (IF new.parent_ministry = old.parent_ministry
        THEN SAME_PARENT_MINISTRY ELSE 0)
       + (IF _has_temporal_overlap(new, old)
          THEN PERMISSIBLE_OVERLAP_PENALTY
          ELSE (IF new.rank_score > old.rank_score THEN LOGICAL_PROMOTION
                ELSE IF new.rank_score = old.rank_score THEN LATERAL_MOVE
                ELSE IF old.rank_score - new.rank_score > 3
                     THEN ILLOGICAL_DEMOTION ELSE 0)
               + (IF 0 <= gap /\ gap < 30 THEN IMMEDIATE_SUCCESSION
                  ELSE IF 30 <= gap /\ gap < 180 THEN QUICK_SUCCESSION
                  ELSE 0))

\* sorted(enriched, key=start_date)
SortByStart(s) == SortedByKeys(s, [i \in 1..Len(s) |-> s[i].start_date])

\* the two sums of the loop body for one cluster: the cohesion against every
\* member, and that sum plus the cohesion against the members that ended
\* before the record starts
FirstPassScore(rec, cluster) ==
    SumSeq([k \in 1..Len(cluster) |->
                _calculate_cohesion_score(rec, cluster[k])])

SecondPassScore(rec, cluster) ==
    FirstPassScore(rec, cluster)
    + SumSeq([k \in 1..Len(cluster) |->
                 IF rec.start_date > cluster[k].end_date
                 THEN _calculate_cohesion_score(rec, cluster[k]) ELSE 0])

IsCompatible(rec, cluster) ==
    \A k \in 1..Len(cluster) : ~_is_hard_conflict(rec, cluster[k])

\* the scan over enumerate(clusters): best = [index, score]
RECURSIVE ScanClusters(_, _, _, _)
ScanClusters(rec, cs, i, best) ==
    IF i > Len(cs) THEN best
    ELSE IF ~IsCompatible(rec, cs[i]) THEN ScanClusters(rec, cs, i + 1, best)
    ELSE LET s1 == FirstPassScore(rec, cs[i])
             b1 == IF s1 > best.score THEN [index |-> i, score |-> s1]
                   ELSE best
             s2 == SecondPassScore(rec, cs[i])
             b2 == IF s2 > b1.score THEN [index |-> i, score |-> s2]
                   ELSE b1
         IN ScanClusters(rec, cs, i + 1, b2)

\* mutant: a record below the threshold is dropped when a compatible
\* cluster exists
PlaceRecord_drop(cs, rec) ==
    LET best == ScanClusters(rec, cs, 1, [index |-> 0, score |-> 0 - 999])
    IN IF best.index # 0 /\ best.score >= MINIMUM_COHESION_THRESHOLD
       THEN [cs EXCEPT ![best.index] = Append(@, rec)]
       ELSE IF best.index # 0 THEN cs ELSE Append(cs, <<rec>>)

PlaceRecord(cs, rec) ==
    LET best == ScanClusters(rec, cs, 1, [index |-> 0, score |-> 0 - 999])
    IN IF best.index # 0 /\ best.score >= MINIMUM_COHESION_THRESHOLD
       THEN [cs EXCEPT ![best.index] = Append(@, rec)]
       ELSE Append(cs, <<rec>>)

RECURSIVE AssignAll(_, _, _)
AssignAll(sorted, i, cs) ==
    IF i > Len(sorted) THEN cs
    ELSE AssignAll(sorted, i + 1, PlaceRecord(cs, sorted[i]))

\* cluster_employment_records: [ok, clusters]; a cluster is the sequence of
\* the positions its records have in raw_records; ok is FALSE when an
\* enrichment raised
cluster_employment_records(os, raw_records) ==
    LET enr == [i \in 1..Len(raw_records) |->
                    _enrich_record(os, raw_records[i], i)]
    IN IF \E i \in 1..Len(enr) : ~enr[i].ok
       THEN [ok |-> FALSE, clusters |-> <<>>]
       ELSE LET cs == AssignAll(SortByStart([i \in 1..Len(enr) |->
                                                 enr[i].rec]), 1, <<>>)
            IN [ok |-> TRUE,
                clusters |-> [c \in 1..Len(cs) |->
                                 [k \in 1..Len(cs[c]) |-> cs[c][k].idx]]]

\* ------------------------------------------------- input universes
\* an ingest record; org is the full unit name split at ":"
Rec(name, unit, rank, s, e) ==
    [clean_name |-> name, org |-> unit.org, url |-> unit.url,
     parent_org_name |-> unit.parent_org_name,
     parent_org_url |-> unit.parent_org_url,
     rank |-> rank, start_date |-> s, end_date |-> e,
     tenure_days |-> e - s, raw_name |-> name]

\* a missing (None or empty) unit name
NoName == <<>>

UnitA == [org |-> <<"min1", "a">>, url |-> "uA",
          parent_org_name |-> <<"min1">>, parent_org_url |-> "uM1"]
UnitB == [org |-> <<"min2", "b">>, url |-> "uB",
          parent_org_name |-> <<"min2">>, parent_org_url |-> "uM2"]
\* units referred to without a parent
UnitTopA == [org |-> <<"a">>, url |-> "uA",
             parent_org_name |-> NoName, parent_org_url |-> None]
UnitTopB == [org |-> <<"b">>, url |-> "uB",
             parent_org_name |-> NoName, parent_org_url |-> None]
\* a unit referred to without a url
UnitN == [org |-> <<"x">>, url |-> None,
          parent_org_name |-> NoName, parent_org_url |-> None]
\* a unit whose parent url is its own url
UnitSelf == [org |-> <<"s">>, url |-> "uS",
             parent_org_name |-> <<"s">>, parent_org_url |-> "uS"]

OrgRow(name, url, parent, parts) ==
    [name |-> name, url |-> url, parent_org_id |-> parent, parts |-> parts]

\* stores the clustering is run against: empty; a preseeded hierarchy with
\* the two units under different ministries; both units under one ministry;
\* a hierarchy whose ministry row was inferred by ingest (no 'parts')
ClusterStores ==
    { <<>>,
      << OrgRow("min1", "uM1", 0, 1), OrgRow("a", "uA", 1, 2),
         OrgRow("min2", "uM2", 0, 1), OrgRow("b", "uB", 3, 2) >>,
      << OrgRow("min1", "uM1", 0, 1), OrgRow("a", "uA", 1, 2),
         OrgRow("b", "uB", 1, 2) >>,
      << OrgRow("min1", "uM1", 0, NoParts), OrgRow("a", "uA", 1, NoParts),
         OrgRow("b", "uB", 0, NoParts) >> }

ClusterRecUniverse ==
    { Rec("n1", UnitA, <<"manager">>, 0, 100),
      Rec("n1", UnitA, <<"senior", "manager">>, 110, 200),
      Rec("n1", UnitB, <<"intern">>, 50, 80),
      Rec("n1", UnitB, <<"board", "member">>, 60, 400),
      Rec("n1", UnitB, <<"manager">>, 500, 600),
      Rec("n1", UnitB, <<"intern">>, 300, 350),
      Rec("n1", UnitA, NullRank, 0, 100),
      Rec("n1", UnitB, <<"manager">>, 100, 150),
      Rec("n1", UnitA, <<"director">>, 210, 300),
      Rec("n1", UnitB, <<"consultant">>, 0, 50) }

\* the records of the soft conflict scenario, dates in days since
\* 2015-01-01: R1 2015-01-01..2016-12-31, R2 2017-01-15..2019-06-30,
\* R4 2016-03-01..2020-03-01
UnitAChild == [org |-> <<"min1", "a", "ac">>, url |-> "uAC",
               parent_org_name |-> <<"min1", "a">>, parent_org_url |-> "uA"]
UnitC == [org |-> <<"c">>, url |-> "uC",
          parent_org_name |-> NoName, parent_org_url |-> None]

R1 == Rec("n1", UnitA, <<"manager">>, 0, 730)
R2 == Rec("n1", UnitAChild, <<"senior", "manager">>, 745, 1641)
R4 == Rec("n1", UnitC, <<"board", "member">>, 425, 1886)

ScenarioRecords == {R1, R2, R4}

\* the three records in every order the caller can give them
ScenarioInputs ==
    { s \in SeqsUpTo(ScenarioRecords, 3) : Range(s) = ScenarioRecords }

\* stores the scenario is run against: empty; unit C under the ministry of
\* unit A; unit C under another ministry; unit C a root of its own
ScenarioStores ==
    { <<>>,
      << OrgRow("min1", "uM1", 0, 1), OrgRow("a", "uA", 1, 2),
         OrgRow("ac", "uAC", 2, 3), OrgRow("c", "uC", 1, 2) >>,
      << OrgRow("min1", "uM1", 0, 1), OrgRow("a", "uA", 1, 2),
         OrgRow("ac", "uAC", 2, 3), OrgRow("min2", "uM2", 0, 1),
         OrgRow("c", "uC", 4, 2) >>,
      << OrgRow("min1", "uM1", 0, 1), OrgRow("a", "uA", 1, 2),
         OrgRow("ac", "uAC", 2, 3), OrgRow("c", "uC", 0, 1) >> }

\* a job, a board seat that overlaps it, and a later job in another
\* ministry that starts 50 days after the first job and inside the board seat
DC1 == Rec("n1", UnitA, <<"senior", "manager">>, 0, 100)

DC2 == Rec("n1", UnitA, <<"board", "member">>, 50, 400)

DC3 == Rec("n1", UnitC, <<"manager">>, 150, 200)

DoubleCountInputs ==
    { s \in SeqsUpTo({DC1, DC2, DC3}, 3) : Range(s) = {DC1, DC2, DC3} }

\* a board seat, a job in another ministry that overlaps it, and a later
\* job in the ministry of the board seat, 50 days after the second job
TB1 == Rec("n1", UnitA, <<"board", "member">>, 0, 400)

TB2 == Rec("n1", UnitC, <<"manager">>, 50, 100)

TB3 == Rec("n1", UnitA, <<"manager">>, 150, 200)

TieInputs == { s \in SeqsUpTo({TB1, TB2, TB3}, 3) : Range(s) = {TB1, TB2, TB3} }

NotClustered == [done |-> FALSE, ok |-> FALSE, clusters |-> <<>>]

\* the collation of the names of the model, for ORDER BY
NameOrder == <<"a", "b", "c", "min1", "min2", "n1", "n2", "n3", "n4", "s",
               "x">>

NameRank(n) == CHOOSE i \in 1..Len(NameOrder) : NameOrder[i] = n

\* ------------------------------------------------- clustering on its own
InitCluster ==
    /\ people = <<>>
    /\ employment = <<>>
    /\ \/ /\ orgs \in ClusterStores
          /\ inRecs \in SeqsUpTo(ClusterRecUniverse, MaxRecs)
       \/ /\ orgs \in ScenarioStores
          /\ inRecs \in ScenarioInputs
       \/ /\ orgs \in ScenarioStores
          /\ inRecs \in DoubleCountInputs \cup TieInputs
    /\ fullCache = NoGraph
    /\ collCache = NoGraph
    /\ op = "init"
    /\ args = <<>>
    /\ ret = <<>>
    /\ hist = <<>>
    /\ clusters = NotClustered
    /\ calls = NoCalls
    /\ heap = <<>>
    /\ pool = NoPool

ClusterRecords ==
    /\ ~clusters.done
    /\ LET r == cluster_employment_records(orgs, inRecs)
       IN clusters' = [done |-> TRUE, ok |-> r.ok, clusters |-> r.clusters]
    /\ op' = "cluster"
    /\ UNCHANGED <<calls, heap, pool, people, orgs, employment, fullCache, collCache, args, ret,
                   hist, inRecs>>

\* the records are in an order sorted by (start_date, raw_name)
SortedByStartAndName(recs) ==
    \A i \in 1..(Len(recs) - 1) :
        \/ recs[i].start_date < recs[i + 1].start_date
        \/ /\ recs[i].start_date = recs[i + 1].start_date
           /\ NameRank(recs[i].raw_name) <= NameRank(recs[i + 1].raw_name)

\* a second run of cluster_employment_records against the same store, on
\* the same records in the order given by perm; both orders are sorted by
\* (start_date, raw_name).  The clusters are kept as the positions the
\* records have in inRecs.
ClusterAgain(perm) ==
    /\ clusters.done
    /\ op = "cluster"
    /\ SortedByStartAndName(inRecs)
    /\ LET again == [i \in 1..Len(inRecs) |-> inRecs[perm[i]]]
       IN /\ SortedByStartAndName(again)
          /\ \E r \in {cluster_employment_records(orgs, again)} :
                ret' = [order |-> perm, ok |-> r.ok,
                        clusters |-> [c \in 1..Len(r.clusters) |->
                                        [k \in 1..Len(r.clusters[c]) |->
                                            perm[r.clusters[c][k]]]]]
    /\ op' = "cluster_again"
    /\ UNCHANGED <<calls, heap, pool, people, orgs, employment, fullCache, collCache, args,
                   hist, inRecs, clusters>>

NextCluster ==
    \/ ClusterRecords
    \/ \E perm \in Permutations(1..Len(inRecs)) : ClusterAgain(perm)

SpecCluster == InitCluster /\ [][NextCluster]_vars

\* the date intervals of two records overlap, inclusive on both ends
IntervalsOverlap(a, b) ==
    a.start_date <= b.end_date /\ b.start_date <= a.end_date

HardConflictPair(a, b) ==
    /\ IntervalsOverlap(a, b)
    /\ ~is_permissible_overlap(a.rank)
    /\ ~is_permissible_overlap(b.rank)

\* C1: no cluster returned by cluster_employment_records holds two records
\* whose date intervals overlap (inclusive) while neither title is
\* permissible-overlap.
C1_NoHardConflict ==
    (clusters.done /\ clusters.ok) =>
        \A c \in 1..Len(clusters.clusters) :
            \A i, j \in 1..Len(clusters.clusters[c]) :
                i # j => ~HardConflictPair(inRecs[clusters.clusters[c][i]],
                                           inRecs[clusters.clusters[c][j]])

\* a run on an input with a hard-conflicting pair in which some cluster
\* nevertheless received several records
C1_Witness ==
    /\ clusters.done /\ clusters.ok
    /\ \E i, j \in 1..Len(inRecs) :
           i # j /\ HardConflictPair(inRecs[i], inRecs[j])
    /\ \E c \in 1..Len(clusters.clusters) : Len(clusters.clusters[c]) >= 2

\* C2: the returned clusters partition the input: every input position is in
\* exactly one cluster, exactly once; no cluster is empty; an empty input
\* gives no cluster.
C2_Partition ==
    (clusters.done /\ clusters.ok) =>
        /\ \A i \in 1..Len(inRecs) :
               Cardinality({<<c, k>> \in
                               (1..Len(clusters.clusters)) \X (1..MaxRecs + 1) :
                               /\ k <= Len(clusters.clusters[c])
                               /\ clusters.clusters[c][k] = i}) = 1
        /\ \A c \in 1..Len(clusters.clusters) :
               /\ clusters.clusters[c] # <<>>
               /\ \A k \in 1..Len(clusters.clusters[c]) :
                      clusters.clusters[c][k] \in 1..Len(inRecs)
        /\ (inRecs = <<>> => clusters.clusters = <<>>)

\* a run that split a three-record input into more than one cluster
C2_Witness ==
    /\ clusters.done /\ clusters.ok
    /\ Len(inRecs) = 3
    /\ Len(clusters.clusters) = 2

\* ------------------------------------------------- people, employment
\* mutant: no conflict target, every call inserts
PeopleCreate_insert(ps, data) ==
    [people |-> Append(ps, data), id |-> Len(ps) + 1]

\* PeopleRepository.create: upsert on (name, disambiguation_key)
PeopleCreate(ps, data) ==
    IF \E i \in 1..Len(ps) :
           /\ ps[i].name = data.name
           /\ ps[i].disambiguation_key = data.disambiguation_key
    THEN LET ex == CHOOSE i \in 1..Len(ps) :
                       /\ ps[i].name = data.name
                       /\ ps[i].disambiguation_key = data.disambiguation_key
         IN [people |-> [ps EXCEPT ![ex].clean_name = data.clean_name,
                                   ![ex].raw_name = data.raw_name],
             id |-> ex]
    ELSE [people |-> Append(ps, data), id |-> Len(ps) + 1]

\* COALESCE(rank, '')
CoalesceRank(rank) == IF rank = NullRank THEN <<>> ELSE rank

\* mutant: the index is on the bare rank column, so NULL and '' differ
EmploymentKey_bare(e) ==
    <<e.person_id, e.org_id, e.rank, e.start_date, e.end_date>>

EmploymentKey(e) ==
    <<e.person_id, e.org_id, CoalesceRank(e.rank), e.start_date, e.end_date>>

\* EmploymentRepository.create: upsert on the exact-duplicate index
EmploymentCreate(es, data) ==
    IF \E i \in 1..Len(es) : EmploymentKey(es[i]) = EmploymentKey(data)
    THEN LET ex == CHOOSE i \in 1..Len(es) :
                       EmploymentKey(es[i]) = EmploymentKey(data)
         IN [employment |->
                 [es EXCEPT ![ex].tenure_days =
                                IF data.tenure_days # NoDays
                                THEN data.tenure_days ELSE @,
                            ![ex].raw_name =
                                IF data.raw_name # None
                                THEN data.raw_name ELSE @,
                            ![ex].source_url = data.source_url],
             id |-> ex]
    ELSE [employment |-> Append(es, data), id |-> Len(es) + 1]

\* ------------------------------------------------- OrganisationService
\* _parse_org_details: the name is the last ":"-separated part
_parse_org_details(org_full_name) == org_full_name[Len(org_full_name)]

_get_parent_org_id(os, parent_name, parent_url) ==
    IF parent_name = NoName THEN [orgs |-> os, id |-> 0]
    ELSE LET found == find_by_url(os, parent_url)
         IN IF found # 0 THEN [orgs |-> os, id |-> found]
            ELSE IF parent_url # None
                 THEN OrgCreate(os, [name |-> _parse_org_details(parent_name),
                                     url |-> parent_url,
                                     parent_org_id |-> 0,
                                     parts |-> NoParts])
                 ELSE [orgs |-> os, id |-> 0]

_get_org_id(os, rec) ==
    LET found == find_by_url(os, rec.url)
    IN IF found # 0 THEN [orgs |-> os, id |-> found]
       ELSE LET par == _get_parent_org_id(os, rec.parent_org_name,
                                          rec.parent_org_url)
            IN OrgCreate(par.orgs, [name |-> _parse_org_details(rec.org),
                                    url |-> rec.url,
                                    parent_org_id |-> par.id,
                                    parts |-> NoParts])

\* CONSTRAINT valid_date_range CHECK (start_date <= end_date): the INSERT
\* raises and EmploymentRepository.create re-raises
CheckViolation(data) == data.start_date > data.end_date

\* DatabaseConnection.transaction(): yields, and on an exception logs and
\* re-raises; every get_cursor() block has committed on its own, so the
\* tables are as the exception left them
transaction(before, at_exit) == at_exit

\* ------------------------------------------------- EmploymentService
\* the loop over the records of one cluster; st carries the tables and the
\* counters; idxs are batch positions
RECURSIVE ProcessRecords(_, _, _, _, _)
ProcessRecords(st, batch, idxs, k, person_id) ==
    IF k > Len(idxs) THEN st
    ELSE IF CheckViolation(batch[idxs[k]])
    THEN [st EXCEPT !.orgs = _get_org_id(st.orgs, batch[idxs[k]]).orgs,
                    !.failed = @ + Len(idxs)]
    ELSE LET rec == batch[idxs[k]]
             o == _get_org_id(st.orgs, rec)
             e == EmploymentCreate(st.employment,
                      [person_id |-> person_id, org_id |-> o.id,
                       rank |-> rec.rank,
                       start_date |-> rec.start_date,
                       end_date |-> rec.end_date,
                       tenure_days |-> rec.tenure_days,
                       raw_name |-> rec.raw_name,
                       source_url |-> rec.url])
         IN ProcessRecords([st EXCEPT !.orgs = o.orgs,
                                      !.employment = e.employment,
                                      !.successful = @ + 1],
                           batch, idxs, k + 1, person_id)

_process_person_cluster(st, batch, idxs, person_name, disambiguation_key) ==
    IF idxs = <<>> THEN st
    ELSE LET first_record == batch[idxs[1]]
             p == PeopleCreate(st.people,
                      [name |-> person_name,
                       clean_name |-> first_record.clean_name,
                       disambiguation_key |-> disambiguation_key,
                       raw_name |-> first_record.raw_name])
         IN transaction(st, ProcessRecords([st EXCEPT !.people = p.people],
                                           batch, idxs, 1, p.id))

RECURSIVE ProcessClusters(_, _, _, _, _, _)
ProcessClusters(st, batch, group, cs, i, name) ==
    IF i > Len(cs) THEN st
    ELSE ProcessClusters(
             _process_person_cluster(st, batch,
                 [k \in 1..Len(cs[i]) |-> group[cs[i][k]]], name, i),
             batch, group, cs, i + 1, name)

\* grouped_records: the names in order of first appearance, each with the
\* batch positions of its records
GroupNames(batch) ==
    LET firsts == SelectSeq([i \in 1..Len(batch) |-> i],
                     LAMBDA i : \A j \in 1..(i - 1) :
                         batch[j].clean_name # batch[i].clean_name)
    IN [g \in 1..Len(firsts) |-> batch[firsts[g]].clean_name]

GroupOf(batch, name) ==
    SelectSeq([i \in 1..Len(batch) |-> i],
              LAMBDA i : batch[i].clean_name = name)

RECURSIVE ProcessGroups(_, _, _, _)
ProcessGroups(st, batch, names, g) ==
    IF g > Len(names) THEN st
    ELSE LET group == GroupOf(batch, names[g])
             r == cluster_employment_records(st.orgs,
                      [k \in 1..Len(group) |-> batch[group[k]]])
         IN ProcessGroups(
                IF r.ok
                THEN ProcessClusters(st, batch, group, r.clusters, 1, names[g])
                ELSE [st EXCEPT !.failed = @ + Len(group)],
                batch, names, g + 1)

\* bulk_insert_records: the tables and counters after the whole batch
bulk_insert_records(ps, os, es, batch) ==
    ProcessGroups([people |-> ps, orgs |-> os, employment |-> es,
                   successful |-> 0, failed |-> 0],
                  batch, GroupNames(batch), 1)

\* preseed_organizations: rows in ascending len(parts), stable; st carries
\* the table, url_to_org_map and the three counters
SeedRow(name, url, parent_url, parts) ==
    [org |-> name, url |-> url, sub_parent_org_url |-> parent_url,
     parts |-> parts]

SortSeed(rows) ==
    SortedByKeys(rows, [i \in 1..Len(rows) |->
                           IF rows[i].parts = NoParts THEN 0
                           ELSE rows[i].parts])

PreseedRow_skip(st, row) ==
    IF row.org = None \/ row.url = None
    THEN st
    ELSE LET is_update == find_by_url(st.orgs, row.url) # 0
             parent_id ==
                 IF row.sub_parent_org_url = None THEN 0
                 ELSE IF row.sub_parent_org_url \in DOMAIN st.map
                      THEN st.map[row.sub_parent_org_url]
                      ELSE find_by_url(st.orgs, row.sub_parent_org_url)
             c == OrgCreate(st.orgs, [name |-> row.org, url |-> row.url,
                                      parent_org_id |-> parent_id,
                                      parts |-> row.parts])
         IN [st EXCEPT !.orgs = c.orgs,
                       !.map = (row.url :> c.id) @@ @,
                       !.created = IF is_update THEN @ ELSE @ + 1,
                       !.updated = IF is_update THEN @ + 1 ELSE @]

PreseedRow(st, row) ==
    IF row.org = None \/ row.url = None
    THEN [st EXCEPT !.failed = @ + 1]
    ELSE LET is_update == find_by_url(st.orgs, row.url) # 0
             parent_id ==
                 IF row.sub_parent_org_url = None THEN 0
                 ELSE IF row.sub_parent_org_url \in DOMAIN st.map
                      THEN st.map[row.sub_parent_org_url]
                      ELSE find_by_url(st.orgs, row.sub_parent_org_url)
             c == OrgCreate(st.orgs, [name |-> row.org, url |-> row.url,
                                      parent_org_id |-> parent_id,
                                      parts |-> row.parts])
         IN [st EXCEPT !.orgs = c.orgs,
                       !.map = (row.url :> c.id) @@ @,
                       !.created = IF is_update THEN @ ELSE @ + 1,
                       !.updated = IF is_update THEN @ + 1 ELSE @]

\* fault is the position, in sorted order, of the row during which the store
\* raises (0: the store never raises); a row skipped for a missing name or
\* url makes no store call
RECURSIVE PreseedRows(_, _, _, _)
PreseedRows(st, rows, i, fault) ==
    IF i > Len(rows) THEN st
    ELSE IF i = fault /\ rows[i].org # None /\ rows[i].url # None
    THEN [st EXCEPT !.aborted = TRUE]
    ELSE PreseedRows(PreseedRow(st, rows[i]), rows, i + 1, fault)

\* the except clause answers (0, 0, len(org_hierarchy_data)); transaction()
\* yields without BEGIN or ROLLBACK, so the rows written before the
\* exception stay
preseed_organizations(os, org_hierarchy_data, fault) ==
    LET st == PreseedRows([orgs |-> os, map |-> <<>>, created |-> 0,
                           updated |-> 0, failed |-> 0, aborted |-> FALSE],
                          SortSeed(org_hierarchy_data), 1, fault)
    IN IF st.aborted
       THEN [orgs |-> st.orgs, created |-> 0, updated |-> 0,
             failed |-> Len(org_hierarchy_data), aborted |-> TRUE]
       ELSE [orgs |-> st.orgs, created |-> st.created,
             updated |-> st.updated, failed |-> st.failed,
             aborted |-> FALSE]

\* ------------------------------------------------- QueryService
\* get_all_employment_data: employment JOIN people JOIN organizations
\* ORDER BY o.name, p.name (rows equal in both are served in id order)
get_all_employment_data(ps, os, es) ==
    LET rows == [i \in 1..Len(es) |->
                    [person_id |-> es[i].person_id,
                     person_name |-> ps[es[i].person_id].name,
                     org_id |-> es[i].org_id,
                     org_name |-> os[es[i].org_id].name,
                     rank |-> es[i].rank,
                     start_date |-> es[i].start_date,
                     end_date |-> es[i].end_date]]
        keys == [i \in 1..Len(es) |->
                    NameRank(rows[i].org_name) * (Len(NameOrder) + 1)
                    + NameRank(rows[i].person_name)]
    IN SortedByKeys(rows, keys)

\* get_organization_hierarchy: SELECT id, name, parent_org_id ORDER BY id
get_organization_hierarchy(os) ==
    [i \in 1..Len(os) |->
        [id |-> i, name |-> os[i].name,
         parent_org_id |-> os[i].parent_org_id]]

\* mutant: the ends of the interval left out
Between_strict(d, lo, hi) == lo < d /\ d < hi

\* d BETWEEN lo AND hi
Between(d, lo, hi) == lo <= d /\ d <= hi

\* get_network_snapshot: the joined rows WHERE target_date BETWEEN
\* e.start_date AND e.end_date ORDER BY o.name, p.name
get_network_snapshot(ps, os, es, target_date) ==
    LET all == get_all_employment_data(ps, os, es)
    IN SelectSeq(all, LAMBDA r : Between(target_date, r.start_date,
                                         r.end_date))

\* the rows of a SELECT DISTINCT in some order
RECURSIVE SeqOfSet(_)
SeqOfSet(S) ==
    IF S = {} THEN <<>>
    ELSE LET x == CHOOSE y \in S : TRUE
         IN <<x>> \o SeqOfSet(S \ {x})

GREATEST(a, b) == IF a >= b THEN a ELSE b

LEAST(a, b) == IF a <= b THEN a ELSE b

\* one row of colleague_overlaps: employment j of a colleague against
\* employment i of the person
OverlapRow(ps, os, es, j, i) ==
    [colleague_name |-> ps[es[j].person_id].name,
     organization |-> os[es[i].org_id].name,
     colleague_rank |-> es[j].rank,
     colleague_start_date |-> es[j].start_date,
     colleague_end_date |-> es[j].end_date,
     person_start_date |-> es[i].start_date,
     person_end_date |-> es[i].end_date,
     overlap_start_date |-> GREATEST(es[j].start_date, es[i].start_date),
     overlap_end_date |-> LEAST(es[j].end_date, es[i].end_date),
     overlap_days |-> LEAST(es[j].end_date, es[i].end_date)
                      - GREATEST(es[j].start_date, es[i].start_date) + 1]

\* the SQL function find_all_colleagues(p_person_name)
find_all_colleagues_sql(ps, os, es, p_person_name) ==
    LET person_employments ==
            { i \in 1..Len(es) : ps[es[i].person_id].name = p_person_name }
        colleague_overlaps ==
            { OverlapRow(ps, os, es, pr[1], pr[2]) :
                pr \in { q \in (1..Len(es)) \X person_employments :
                           /\ es[q[1]].org_id = es[q[2]].org_id
                           /\ ps[es[q[1]].person_id].name # p_person_name
                           /\ es[q[1]].start_date <= es[q[2]].end_date
                           /\ es[q[1]].end_date >= es[q[2]].start_date } }
        rows == SeqOfSet({ co \in colleague_overlaps :
                             co.overlap_start_date <= co.overlap_end_date })
    IN SortedByKeys(rows,
           [k \in 1..Len(rows) |->
               (NameRank(rows[k].colleague_name) * 100
                + NameRank(rows[k].organization)) * 10000
               + rows[k].overlap_start_date])

\* QueryService._deduplicate_list_of_dicts: the first of equal dicts stays
_deduplicate_list_of_dicts(list_of_dicts) ==
    LET keep == SelectSeq([i \in 1..Len(list_of_dicts) |-> i],
                    LAMBDA i : \A j \in 1..(i - 1) :
                                   list_of_dicts[j] # list_of_dicts[i])
    IN [k \in 1..Len(keep) |-> list_of_dicts[keep[k]]]

\* an exception that leaves the call
RaiseRet(error) == [kind |-> "raise", error |-> error, items |-> <<>>]

ItemsRet(items) == [kind |-> "list", error |-> "", items |-> items]

\* name_query, pg_similarity_threshold, fw_primary_similarity_threshold
\* and limit_results have no default
RequiredPositional == 4

\* DEFAULT_MIN_SIMILARITY_THRESHOLD (in tenths), DEFAULT_MAX_SIMILAR_NAMES
DEFAULT_MIN_SIMILARITY_THRESHOLD == 5
DEFAULT_MAX_SIMILAR_NAMES == 3

\* a call of _get_similar_person_names with positional arguments only
\* binds when every parameter without a default receives one
CallBinds(positional) == Len(positional) >= RequiredPositional

\* the arguments find_all_colleagues gives to _get_similar_person_names
SimilarNamesCall(person_name, min_similarity_threshold, max_similar_names) ==
    <<person_name, min_similarity_threshold, max_similar_names>>

\* QueryService.find_all_colleagues; the fuzzy call is made outside the
\* try block, so its TypeError leaves the method
find_all_colleagues(ps, os, es, person_name, is_fuzzy) ==
    IF is_fuzzy /\ ~CallBinds(SimilarNamesCall(person_name, DEFAULT_MIN_SIMILARITY_THRESHOLD, DEFAULT_MAX_SIMILAR_NAMES))
    THEN RaiseRet("TypeError")
    ELSE LET names_to_query == <<person_name>>
             all_colleagues == find_all_colleagues_sql(ps, os, es, names_to_query[1])
         IN ItemsRet(_deduplicate_list_of_dicts(all_colleagues))

\* ------------------------------------------------- write inputs
\* batches offered to bulk_insert_records
Batches ==
    { \* one name, two jobs far apart at two top-level units
      << Rec("n1", UnitTopA, <<"manager">>, 0, 100),
         Rec("n1", UnitTopB, <<"engineer">>, 400, 500) >>,
      \* two names that were colleagues at one unit, one of them twice
      << Rec("n1", UnitTopA, <<"manager">>, 0, 100),
         Rec("n2", UnitTopA, <<"officer">>, 50, 150),
         Rec("n1", UnitTopA, <<"manager">>, 0, 100) >>,
      \* units named with their parent
      << Rec("n2", UnitB, <<"officer">>, 120, 300),
         Rec("n3", UnitB, NullRank, 200, 400),
         Rec("n3", UnitA, <<>>, 0, 20) >>,
      \* a unit without a url
      << Rec("n3", UnitN, <<"analyst">>, 0, 100) >>,
      \* a unit whose parent url is its own
      << Rec("n1", UnitSelf, <<"intern">>, 0, 10) >>,
      \* one job without a rank, and the same job with an empty rank, no
      \* tenure and another spelling of the name
      << Rec("n1", UnitTopA, NullRank, 0, 100) >>,
      << [Rec("n1", UnitTopA, <<>>, 0, 100) EXCEPT !.tenure_days = NoDays,
                                                  !.raw_name = "N1"] >>,
      \* a second job of n4 that ends before it starts, then a job of n2
      << Rec("n4", UnitTopA, <<"manager">>, 0, 100),
         Rec("n4", UnitTopA, <<"senior", "manager">>, 110, 105),
         Rec("n2", UnitTopA, <<"officer">>, 50, 150) >> }

\* hierarchies offered to preseed_organizations
SeedLists ==
    { << SeedRow("min1", "uM1", None, 1),
         SeedRow("a", "uA", "uM1", 2),
         SeedRow("b", "uB", "uM1", 2) >>,
      \* the same units after a reorganisation: a on top, min1 below it
      << SeedRow("min1", "uM1", "uA", 2),
         SeedRow("a", "uA", None, 1) >>,
      \* rows out of depth order, and a row without a url
      << SeedRow("b", "uB", "uA", 2),
         SeedRow("a", "uA", "uB", 2),
         SeedRow("c", None, None, 1) >> }

NoHist == [writes |-> 0, lastKind |-> "none", lastInput |-> <<>>]

\* ------------------------------------------------- the system
Init ==
    /\ people = <<>>
    /\ orgs = <<>>
    /\ employment = <<>>
    /\ fullCache = NoGraph
    /\ collCache = NoGraph
    /\ op = "init"
    /\ args = <<>>
    /\ ret = <<>>
    /\ hist = NoHist
    /\ inRecs = <<>>
    /\ clusters = NotClustered
    /\ calls = NoCalls
    /\ heap = <<>>
    /\ pool = NoPool

\* TemporalGraph.bulk_insert_records
Ingest(batch) ==
    /\ hist.writes < MaxWrites
    /\ LET r == bulk_insert_records(people, orgs, employment, batch)
       IN /\ people' = r.people
          /\ orgs' = r.orgs
          /\ employment' = r.employment
          /\ ret' = [total_processed |-> Len(batch),
                     successful |-> r.successful,
                     failed |-> r.failed]
    /\ op' = "ingest"
    /\ args' = batch
    /\ hist' = [writes |-> hist.writes + 1, lastKind |-> "ingest",
                lastInput |-> batch]
    /\ UNCHANGED <<calls, heap, pool, fullCache, collCache, inRecs, clusters>>

\* TemporalGraph.preseed_orgs
Preseed(rows) ==
    /\ hist.writes < MaxWrites
    /\ \E fault \in 0..Len(rows) :
         \E r \in {preseed_organizations(orgs, rows, fault)} :
            /\ orgs' = r.orgs
            /\ ret' = [created |-> r.created, updated |-> r.updated,
                       failed |-> r.failed]
            /\ hist' = [writes |-> hist.writes + 1,
                        lastKind |-> IF r.aborted THEN "preseed_aborted"
                                     ELSE "preseed",
                        lastInput |-> rows]
    /\ op' = "preseed"
    /\ args' = rows
    /\ UNCHANGED <<calls, heap, pool, people, employment, fullCache, collCache, inRecs,
                   clusters>>

\* dates asked about
SnapshotDates == {0, 100, 101, 250}

\* TemporalGraph.get_network_snapshot
NetworkSnapshot(target_date) ==
    /\ ret' = [kind |-> "list",
               items |-> get_network_snapshot(people, orgs, employment,
                                              target_date)]
    /\ op' = "network_snapshot"
    /\ args' = [target_date |-> target_date]
    /\ UNCHANGED <<calls, heap, pool, people, orgs, employment, fullCache, collCache, hist,
                   inRecs, clusters>>

\* names asked about
AskedNames == {"n1", "n2", "n4"}

\* TemporalGraph.find_colleagues with target_date omitted
FindColleagues(person_name, is_fuzzy) ==
    /\ ret' = find_all_colleagues(people, orgs, employment, person_name,
                                  is_fuzzy)
    /\ op' = "find_colleagues"
    /\ args' = [person_name |-> person_name, target_date |-> None,
                is_fuzzy |-> is_fuzzy]
    /\ UNCHANGED <<calls, heap, pool, people, orgs, employment, fullCache, collCache, hist,
                   inRecs, clusters>>

Next ==
    \/ \E batch \in Batches : Ingest(batch)
    \/ \E rows \in SeedLists : Preseed(rows)
    \/ \E target_date \in SnapshotDates : NetworkSnapshot(target_date)
    \/ \E person_name \in AskedNames : \E is_fuzzy \in BOOLEAN :
           FindColleagues(person_name, is_fuzzy)

Spec == Init /\ [][Next]_vars

\* ------------------------------------------------- store properties
\* C3: running bulk_insert_records again with the batch of the write just
\* before leaves the numbers of people, organization and employment rows
\* unchanged, and every record attached to the same person and unit (no
\* employment row changes its person_id / org_id and none is added).
C3_IngestIdempotent ==
    [][(op' = "ingest" /\ hist.lastKind = "ingest"
        /\ hist'.lastInput = hist.lastInput)
       => /\ Len(people') = Len(people)
          /\ Len(orgs') = Len(orgs)
          /\ Len(employment') = Len(employment)
          /\ \A i \in 1..Len(employment) :
                 /\ employment'[i].person_id = employment[i].person_id
                 /\ employment'[i].org_id = employment[i].org_id]_vars

\* the unit reached from id by n parent links, 0 when the chain ends first
RECURSIVE ParentIter(_, _, _)
ParentIter(os, id, n) ==
    IF id = 0 \/ n = 0 THEN id
    ELSE ParentIter(os, os[id].parent_org_id, n - 1)

\* C4: following parent_org_id from any unit never returns to a unit
\* already visited (a chain of as many links as there are units must end).
C4_ParentAcyclic ==
    \A id \in 1..Len(orgs) : ParentIter(orgs, id, Len(orgs)) = 0

\* C5: no two people rows share (name, disambiguation_key), and creating a
\* person whose pair exists updates that row and returns its id.
C5_PersonUnique ==
    /\ \A i, j \in 1..Len(people) :
           (/\ people[i].name = people[j].name
            /\ people[i].disambiguation_key = people[j].disambiguation_key)
           => i = j
    /\ \A i \in 1..Len(people) :
           LET r == PeopleCreate(people,
                        [name |-> people[i].name, clean_name |-> "other",
                         disambiguation_key |-> people[i].disambiguation_key,
                         raw_name |-> "other"])
           IN /\ r.id = i
              /\ Len(r.people) = Len(people)
              /\ r.people[i].clean_name = "other"

\* a second ingest has left two people of one name with different keys
C5_Witness ==
    /\ op = "ingest" /\ hist.writes = 2
    /\ \E i, j \in 1..Len(people) :
           /\ i # j
           /\ people[i].name = people[j].name
           /\ people[i].disambiguation_key # people[j].disambiguation_key

RankOrEmpty(e) == IF e.rank = NullRank THEN <<>> ELSE e.rank

UniqueEmployment(es) ==
    \A i, j \in 1..Len(es) :
        (/\ es[i].person_id = es[j].person_id
         /\ es[i].org_id = es[j].org_id
         /\ RankOrEmpty(es[i]) = RankOrEmpty(es[j])
         /\ es[i].start_date = es[j].start_date
         /\ es[i].end_date = es[j].end_date)
        => i = j

\* C6: no two employment rows share (person_id, org_id, rank-or-empty,
\* start_date, end_date) at any time, and an ingest leaves person_id, org_id,
\* rank and the dates of every existing row as they were (it may change
\* tenure_days, raw_name and the attributes only) and removes no row.
C6_EmploymentUnique ==
    [][/\ UniqueEmployment(employment')
       /\ Len(employment') >= Len(employment)
       /\ \A i \in 1..Len(employment) :
              /\ employment'[i].person_id = employment[i].person_id
              /\ employment'[i].org_id = employment[i].org_id
              /\ employment'[i].rank = employment[i].rank
              /\ employment'[i].start_date = employment[i].start_date
              /\ employment'[i].end_date = employment[i].end_date]_vars

\* a row inserted without a rank was hit again by the same job with an
\* empty rank: raw_name replaced, tenure_days kept, no second row
C6_Witness ==
    /\ op = "ingest"
    /\ \E i \in 1..Len(employment) :
           /\ employment[i].rank = NullRank
           /\ employment[i].raw_name = "N1"
           /\ employment[i].tenure_days = 100

\* ------------------------------------------------- GraphService
\* f"person_{pid}" and f"org_{oid}"
PersonNode(pid) == <<"person", pid>>

OrgNode(oid) == <<"org", oid>>

\* int(prefixed_id.split("_")[1])
get_int_id(prefixed_id) == prefixed_id[2]

\* "if self._cache:" -- a graph object is true when it has a node
Truthy(cache) == cache.built /\ DOMAIN cache.names # {}

\* mutant: only one half of the interval test
ColleagueOverlap_half(p1_record, p2_record) ==
    p1_record.start_date <= p2_record.end_date

\* the classic interval overlap check of _build_colleague_graph
ColleagueOverlap(p1_record, p2_record) ==
    /\ p1_record.start_date <= p2_record.end_date
    /\ p2_record.start_date <= p1_record.end_date

\* has_edge / edges[..]["orgs"].append / add_edge(.., orgs=[org_id])
AddColleagueEdge(edges, node1, node2, org_id) ==
    IF {node1, node2} \in DOMAIN edges
    THEN [edges EXCEPT ![{node1, node2}] = Append(@, org_id)]
    ELSE edges @@ ({node1, node2} :> <<org_id>>)

\* for p1_record, p2_record in combinations(employments, 2)
RECURSIVE AddPairs(_, _, _, _, _)
AddPairs(edges, employments, org_id, i, j) ==
    IF i >= Len(employments) THEN edges
    ELSE IF j > Len(employments)
         THEN AddPairs(edges, employments, org_id, i + 1, i + 2)
         ELSE AddPairs(
                IF ColleagueOverlap(employments[i], employments[j])
                THEN AddColleagueEdge(edges,
                         PersonNode(employments[i].person_id),
                         PersonNode(employments[j].person_id), org_id)
                ELSE edges,
                employments, org_id, i, j + 1)

\* the keys of org_employees, in order of first appearance
RECURSIVE OrgKeys(_)
OrgKeys(all_data) ==
    IF all_data = <<>> THEN <<>>
    ELSE LET init == OrgKeys(SubSeq(all_data, 1, Len(all_data) - 1))
             k == all_data[Len(all_data)].org_id
         IN IF k \in Range(init) THEN init ELSE Append(init, k)

\* for org_id, employments in org_employees.items()
RECURSIVE AddOrgs(_, _, _, _)
AddOrgs(edges, all_data, keys, k) ==
    IF k > Len(keys) THEN edges
    ELSE AddOrgs(
           AddPairs(edges,
                    SelectSeq(all_data, LAMBDA r : r.org_id = keys[k]),
                    keys[k], 1, 2),
           all_data, keys, k + 1)

_build_colleague_graph(cache, ps, os, es) ==
    IF Truthy(cache) THEN cache
    ELSE LET all_data == get_all_employment_data(ps, os, es)
             nodes == {PersonNode(all_data[i].person_id) :
                          i \in 1..Len(all_data)}
         IN [built |-> TRUE,
             names |-> [n \in nodes |-> ps[get_int_id(n)].name],
             edges |-> AddOrgs(<<>>, all_data, OrgKeys(all_data), 1)]

\* the graph is searched undirected, so an edge is the set of its ends
build_full_history_graph(cache, ps, os, es) ==
    IF Truthy(cache) THEN cache
    ELSE LET all_data == get_all_employment_data(ps, os, es)
             org_hierarchy == get_organization_hierarchy(os)
             pnodes == {PersonNode(all_data[i].person_id) :
                           i \in 1..Len(all_data)}
             onodes == {OrgNode(i) : i \in 1..Len(org_hierarchy)}
         IN [built |-> TRUE,
             names |-> [n \in pnodes \cup onodes |->
                           IF n[1] = "person" THEN ps[get_int_id(n)].name
                           ELSE org_hierarchy[get_int_id(n)].name],
             edges |->
                 {{PersonNode(all_data[i].person_id),
                   OrgNode(all_data[i].org_id)} : i \in 1..Len(all_data)}
                 \cup
                 {{OrgNode(i), OrgNode(org_hierarchy[i].parent_org_id)} :
                     i \in {i \in 1..Len(org_hierarchy) :
                               org_hierarchy[i].parent_org_id # 0}}]

\* ---- nx.shortest_path on an undirected graph with edge set E
NoPath == 0 - 1

Neighbours(E, n) == {m \in UNION E : {n, m} \in E}

\* breadth-first distance from the start of the search to t
RECURSIVE Distance(_, _, _, _, _)
Distance(E, frontier, seen, t, d) ==
    IF t \in frontier THEN d
    ELSE LET next == (UNION {Neighbours(E, n) : n \in frontier}) \ seen
         IN IF next = {} THEN NoPath
            ELSE Distance(E, next, seen \cup next, t, d + 1)

\* the paths of d edges from s to t, d being their distance
RECURSIVE PathsOfLength(_, _, _, _)
PathsOfLength(E, s, t, d) ==
    IF d = 0 THEN {<<s>>}
    ELSE UNION {{Append(q, t) : q \in PathsOfLength(E, s, u, d - 1)} :
                   u \in {u \in Neighbours(E, t) :
                             Distance(E, {s}, {s}, u, 0) = d - 1}}

\* the loop over valid sources and targets; best is the pair whose path
\* shortest_path_ids holds, and the length of that path
NoBest == [found |-> FALSE, source |-> <<>>, target |-> <<>>, len |-> 0]

RECURSIVE PairLoop(_, _, _, _, _, _)
PairLoop(E, sources, targets, i, j, best) ==
    IF i > Len(sources) THEN best
    ELSE IF j > Len(targets)
         THEN PairLoop(E, sources, targets, i + 1, 1, best)
         ELSE LET source_id == sources[i]
                  target_id == targets[j]
                  d == Distance(E, {source_id}, {source_id}, target_id, 0)
                  here == [found |-> TRUE, source |-> source_id,
                           target |-> target_id,
                           len |-> IF source_id = target_id THEN 1
                                   ELSE d + 1]
                  nb == IF source_id = target_id
                        THEN IF ~best.found THEN here ELSE best
                        ELSE IF d = NoPath THEN best
                        ELSE IF ~best.found \/ d + 1 < best.len
                             THEN here ELSE best
              IN PairLoop(E, sources, targets, i, j + 1, nb)

\* the node lists shortest_path_ids may hold after the loop
LoopPaths(E, best) ==
    IF best.source = best.target THEN {<<best.source>>}
    ELSE PathsOfLength(E, best.source, best.target, best.len - 1)

\* ---- returned values: a Python list of items, or None
NoNode == <<"none", 0>>

IdItem(node) == [node_id |-> node, node_type |-> None, name |-> None]

NameItem(name) == [node_id |-> NoNode, node_type |-> None, name |-> name]

ListRet(items) == [kind |-> "list", items |-> items]

NoneRet == [kind |-> "none", items |-> <<>>]

ValidNodes(G, ids) ==
    SelectSeq([i \in 1..Len(ids) |-> PersonNode(ids[i])],
              LAMBDA n : n \in DOMAIN G.names)

\* GraphService.find_shortest_path on the full graph G: the values it
\* may return
find_shortest_path(G, person1_ids, person2_ids, people_only, ids_only) ==
    LET valid_source_ids == ValidNodes(G, person1_ids)
        valid_target_ids == ValidNodes(G, person2_ids)
        best == PairLoop(G.edges, valid_source_ids, valid_target_ids,
                         1, 1, NoBest)
        Out(shortest_path_ids) ==
            LET path_ids_to_use ==
                    IF people_only
                    THEN SelectSeq(shortest_path_ids,
                                   LAMBDA n : n[1] = "person")
                    ELSE shortest_path_ids
            IN ListRet([i \in 1..Len(path_ids_to_use) |->
                           IF ids_only THEN IdItem(path_ids_to_use[i])
                           ELSE NameItem(G.names[path_ids_to_use[i]])])
    IN IF valid_source_ids = <<>> \/ valid_target_ids = <<>>
       THEN {ListRet(<<>>)}
       ELSE IF ~best.found THEN {ListRet(<<>>)}
       ELSE {Out(q) : q \in LoopPaths(G.edges, best)}

\* structured_path: the persons with edge_data["orgs"][0] woven in
Weave(colleague_G, path) ==
    [i \in 1..(2 * Len(path) - 1) |->
        IF i % 2 = 1 THEN path[(i + 1) \div 2]
        ELSE OrgNode(colleague_G.edges[{path[i \div 2],
                                        path[i \div 2 + 1]}][1])]

\* GraphService.find_shortest_temporal_path: the values it may return
find_shortest_temporal_path(colleague_G, person1_ids, person2_ids, ids_only) ==
    LET valid_source_nodes == ValidNodes(colleague_G, person1_ids)
        valid_target_nodes == ValidNodes(colleague_G, person2_ids)
        E == DOMAIN colleague_G.edges
        best == PairLoop(E, valid_source_nodes, valid_target_nodes,
                         1, 1, NoBest)
        Out(shortest_person_path_ids) ==
            LET structured_path == Weave(colleague_G,
                                         shortest_person_path_ids)
            IN IF ids_only
               THEN ListRet([i \in 1..Len(structured_path) |->
                                IdItem(structured_path[i])])
               ELSE NoneRet
    IN IF valid_source_nodes = <<>> \/ valid_target_nodes = <<>>
       THEN {ListRet(<<>>)}
       ELSE IF ~best.found THEN {ListRet(<<>>)}
       ELSE {Out(q) : q \in LoopPaths(E, best)}

\* ------------------------------------------------- TemporalGraph
\* '"person" in item' / '"org" in item' on a name: no name of the model
\* holds either word
NameHolds(name, word) == FALSE

\* the record the facade builds for one item of res (<<>> is no record)
MetadataRecord(ps, os, item) ==
    IF item.node_id = NoNode
    THEN IF NameHolds(item.name, "person") \/ NameHolds(item.name, "org")
         THEN <<item>> ELSE <<>>
    ELSE IF item.node_id[1] = "person"
    THEN IF get_int_id(item.node_id) \in 1..Len(ps)
         THEN <<[node_id |-> item.node_id, node_type |-> "person",
                 name |-> ps[get_int_id(item.node_id)].name]>>
         ELSE <<>>
    ELSE IF get_int_id(item.node_id) \in 1..Len(os)
         THEN <<[node_id |-> item.node_id, node_type |-> "organization",
                 name |-> os[get_int_id(item.node_id)].name]>>
         ELSE <<>>

RECURSIVE MetadataList(_, _, _)
MetadataList(ps, os, items) ==
    IF items = <<>> THEN <<>>
    ELSE MetadataRecord(ps, os, Head(items))
         \o MetadataList(ps, os, Tail(items))

\* TemporalGraph.find_shortest_path: the values it may return, given the
\* two graphs the graph service answers from
FacadePaths(ps, os, full_G, colleague_G, person1, person2, people_only, include_metadata, is_temporal) ==
    LET first == IF is_temporal
                 THEN find_shortest_temporal_path(colleague_G, person1,
                                                  person2, include_metadata)
                 ELSE find_shortest_path(full_G, person1, person2,
                                         include_metadata, FALSE)
        second == find_shortest_path(full_G, person1, person2,
                                     people_only, FALSE)
    IN UNION {IF res.kind = "list" /\ res.items # <<>> /\ include_metadata
              THEN {ListRet(MetadataList(ps, os, res.items))}
              ELSE second : res \in first}

\* ------------------------------------------------- the system, queried
\* batches and hierarchies written between the queries
CacheBatches ==
    { \* three names at one unit, the third long after the other two
      << Rec("n1", UnitTopA, <<"manager">>, 0, 100),
         Rec("n2", UnitTopA, <<"officer">>, 50, 150),
         Rec("n3", UnitTopA, <<"analyst">>, 500, 600) >>,
      \* the second and third name together at another unit
      << Rec("n2", UnitTopB, <<"officer">>, 200, 300),
         Rec("n3", UnitTopB, <<"analyst">>, 250, 400) >> }

GraphBatches ==
    CacheBatches \cup
    { \* one name with a job and a board seat at one unit at the same time
      << Rec("n1", UnitTopA, <<"manager">>, 0, 100),
         Rec("n1", UnitTopA, <<"board", "member">>, 50, 400) >> }

GraphSeeds ==
    { << SeedRow("min1", "uM1", None, 1),
         SeedRow("a", "uA", "uM1", 2),
         SeedRow("b", "uB", "uM1", 2) >> }

\* the person ids asked about: person1 and person2 of a query
QueryPairs ==
    { [person1 |-> <<4, 1>>, person2 |-> <<3>>],
      [person1 |-> <<1, 2>>, person2 |-> <<2>>],
      [person1 |-> <<2, 1>>, person2 |-> <<2>>],
      [person1 |-> <<3>>, person2 |-> <<1, 2>>] }

QueryArgs(q, people_only, include_metadata, is_temporal, ids_only) ==
    [person1 |-> q.person1, person2 |-> q.person2,
     people_only |-> people_only, include_metadata |-> include_metadata,
     is_temporal |-> is_temporal, ids_only |-> ids_only]

\* GraphService.find_shortest_path
GraphShortestPath(q, people_only, ids_only) ==
    LET G == build_full_history_graph(fullCache, people, orgs, employment)
    IN /\ fullCache' = G
       /\ \E r \in find_shortest_path(G, q.person1, q.person2, people_only,
                                      ids_only) : ret' = r
       /\ op' = "graph_shortest_path"
       /\ args' = QueryArgs(q, people_only, FALSE, FALSE, ids_only)
       /\ UNCHANGED <<calls, heap, pool, people, orgs, employment, collCache, hist, inRecs,
                      clusters>>

\* GraphService.find_shortest_temporal_path
GraphTemporalPath(q, ids_only) ==
    LET colleague_G == _build_colleague_graph(collCache, people, orgs,
                                              employment)
        full_G == build_full_history_graph(fullCache, people, orgs,
                                           employment)
    IN /\ collCache' = colleague_G
       /\ fullCache' = full_G
       /\ \E r \in find_shortest_temporal_path(colleague_G, q.person1,
                                               q.person2, ids_only) :
              ret' = r
       /\ op' = "graph_temporal_path"
       /\ args' = QueryArgs(q, FALSE, FALSE, TRUE, ids_only)
       /\ UNCHANGED <<calls, heap, pool, people, orgs, employment, hist, inRecs, clusters>>

\* TemporalGraph.find_shortest_path
FindShortestPath(q, people_only, include_metadata, is_temporal) ==
    LET colleague_G == IF is_temporal
                       THEN _build_colleague_graph(collCache, people, orgs,
                                                   employment)
                       ELSE collCache
        full_G == build_full_history_graph(fullCache, people, orgs,
                                           employment)
    IN /\ collCache' = colleague_G
       /\ fullCache' = full_G
       /\ \E r \in FacadePaths(people, orgs, full_G, colleague_G,
                               q.person1, q.person2, people_only,
                               include_metadata, is_temporal) : ret' = r
       /\ op' = "find_shortest_path"
       /\ args' = QueryArgs(q, people_only, include_metadata, is_temporal,
                            FALSE)
       /\ UNCHANGED <<calls, heap, pool, people, orgs, employment, hist, inRecs, clusters>>

NextGraph ==
    \/ \E batch \in GraphBatches : Ingest(batch)
    \/ \E rows \in GraphSeeds : Preseed(rows)
    \/ \E q \in QueryPairs : \E people_only, ids_only \in BOOLEAN :
           GraphShortestPath(q, people_only, ids_only)
    \/ \E q \in QueryPairs : \E ids_only \in BOOLEAN :
           GraphTemporalPath(q, ids_only)
    \/ \E q \in QueryPairs :
           \E people_only, include_metadata, is_temporal \in BOOLEAN :
               FindShortestPath(q, people_only, include_metadata,
                                is_temporal)

SpecGraph == Init /\ [][NextGraph]_vars

\* ------------------------------------------------- graph properties
\* C7: a step of bulk_insert_records or preseed_organizations leaves
\* neither graph cache holding a graph, and every shortest-path query is
\* answered from graphs that equal the ones built from the store as it is
\* at the query.
C7_CachesDroppedAfterWrite ==
    [][/\ op' \in {"ingest", "preseed"} =>
              ~Truthy(fullCache') /\ ~Truthy(collCache')
       /\ op' \in {"graph_shortest_path", "graph_temporal_path",
                   "find_shortest_path"} =>
              /\ fullCache' = build_full_history_graph(NoGraph, people,
                                                       orgs, employment)
              /\ collCache' # collCache =>
                     collCache' = _build_colleague_graph(NoGraph, people,
                                                         orgs, employment)
      ]_vars

\* the items of a returned path come from the temporal query
IsInterleaved(r) ==
    /\ r.kind = "list"
    /\ r.items # <<>>
    /\ \A i \in 1..Len(r.items) : r.items[i].node_id # NoNode

FromTemporalQuery ==
    \/ op = "graph_temporal_path" /\ IsInterleaved(ret)
    \/ /\ op = "find_shortest_path"
       /\ args.is_temporal /\ args.include_metadata
       /\ IsInterleaved(ret)

\* person p and person q hold employments at unit u whose date intervals
\* overlap, ends included
ColleaguesAt(es, p, u, q) ==
    \E i, j \in 1..Len(es) :
        /\ es[i].person_id = p /\ es[i].org_id = u
        /\ es[j].person_id = q /\ es[j].org_id = u
        /\ es[i].start_date <= es[j].end_date
        /\ es[j].start_date <= es[i].end_date

\* C8: in every path the temporal shortest-path query returns, each
\* consecutive (person, unit, person) triple is of two persons who hold
\* employments at that unit with overlapping (inclusive) date intervals.
C8_TemporalPathSound ==
    FromTemporalQuery =>
        /\ Len(ret.items) % 2 = 1
        /\ \A i \in 1..Len(ret.items) :
               ret.items[i].node_id[1] =
                   IF i % 2 = 1 THEN "person" ELSE "org"
        /\ \A k \in 1..(Len(ret.items) \div 2) :
               ColleaguesAt(employment,
                            get_int_id(ret.items[2 * k - 1].node_id),
                            get_int_id(ret.items[2 * k].node_id),
                            get_int_id(ret.items[2 * k + 1].node_id))

\* a temporal path of three persons and the two units between them
C8_Witness ==
    /\ FromTemporalQuery
    /\ Len(ret.items) = 5
    /\ ret.items[2].node_id # ret.items[4].node_id

\* an item of a returned list stands for the node: by its id when the item
\* carries one, by the name the graphs hold for the node otherwise
ItemIsNode(item, node, full_G, colleague_G) ==
    IF item.node_id # NoNode THEN item.node_id = node
    ELSE LET G == IF node[1] = "person" /\ node \in DOMAIN colleague_G.names
                  THEN colleague_G ELSE full_G
         IN node \in DOMAIN G.names /\ item.name = G.names[node]

IsPath(r, path, full_G, colleague_G) ==
    /\ r.kind = "list"
    /\ Len(r.items) = Len(path)
    /\ \A i \in 1..Len(path) :
           ItemIsNode(r.items[i], path[i], full_G, colleague_G)

NodesOf(r) == [i \in 1..Len(r.items) |-> r.items[i].node_id]

\* C9: the facade's shortest_path with temporal=true returns a path found
\* on the colleague graph, in the interleaved form, whatever the other
\* flags are; with temporal=false it returns a path found on the full
\* graph.
C9_Dispatch ==
    op = "find_shortest_path" =>
        LET found ==
                IF args.is_temporal
                THEN find_shortest_temporal_path(collCache, args.person1,
                                                 args.person2, TRUE)
                ELSE find_shortest_path(fullCache, args.person1,
                                        args.person2, args.people_only,
                                        TRUE)
        IN \E r \in found :
               IsPath(ret, NodesOf(r), fullCache,
                      IF args.is_temporal THEN collCache ELSE fullCache)

\* the least number of nodes of a path between a source and a target that
\* are nodes of the graph, 0 when no pair is connected
MinNodes(E, nodes, sources, targets) ==
    LET ds == {IF s = t THEN 0
               ELSE Distance(E, {PersonNode(s)}, {PersonNode(s)},
                             PersonNode(t), 0) :
                  <<s, t>> \in {st \in Range(sources) \X Range(targets) :
                                   /\ PersonNode(st[1]) \in nodes
                                   /\ PersonNode(st[2]) \in nodes}}
              \ {NoPath}
    IN IF ds = {} THEN 0
       ELSE 1 + CHOOSE d \in ds : \A e \in ds : d <= e

\* C10: the shortest-path queries return a list, empty exactly when no
\* source is connected to a target, and otherwise a path of the least
\* length over all pairs of a source and a target (one node when an id is
\* both a source and a target); a temporal path of m persons has 2m - 1
\* items.
C10_OverallShortest ==
    /\ (op = "graph_shortest_path" /\ ~args.people_only) =>
           /\ ret.kind = "list"
           /\ Len(ret.items) = MinNodes(fullCache.edges,
                                        DOMAIN fullCache.names,
                                        args.person1, args.person2)
    /\ op = "graph_temporal_path" =>
           /\ ret.kind = "list"
           /\ LET m == MinNodes(DOMAIN collCache.edges,
                                DOMAIN collCache.names,
                                args.person1, args.person2)
              IN Len(ret.items) = IF m = 0 THEN 0 ELSE 2 * m - 1

\* ------------------------------------------------- fuzzy name resolution
\* clean names the trigram stage may hand over, and the values
\* fuzz.token_set_ratio may take on two different names
CandNames == {"n1", "n2", "n3"}

FuzzScores == {60, 90}

NamePairs == {{a, b} : a, b \in CandNames} \ {{a} : a \in CandNames}

\* int(threshold * 100) for a threshold given in tenths
ThresholdInt(tenths) == tenths * 10

\* fuzz.token_set_ratio of two candidate names
token_set_ratio(pairwise, a, b) == IF a = b THEN 100 ELSE pairwise[{a, b}]

\* list.sort(key=..., reverse=True): stable, descending in the key
SortDescending(s, keys) ==
    SortedByKeys(s, [i \in 1..Len(s) |-> 0 - keys[i]])

\* mutant: a candidate is compared with itself as well
num_strong_links_self(cands, pairwise, i, fw_pairwise_threshold_int) ==
    Cardinality({j \in 1..Len(cands) :
                    token_set_ratio(pairwise, cands[i].name, cands[j].name)
                        >= fw_pairwise_threshold_int})

\* the number of other candidates a candidate is strongly linked to
num_strong_links(cands, pairwise, i, fw_pairwise_threshold_int) ==
    Cardinality({j \in 1..Len(cands) :
                    /\ j # i
                    /\ token_set_ratio(pairwise, cands[i].name,
                                       cands[j].name)
                           >= fw_pairwise_threshold_int})

\* QueryService._get_similar_person_names after the SQL stage
\* (pg_candidates are the clean names the SQL stage returned, primary the
\* token_set_ratio of each name against the query)
_get_similar_person_names(pg_candidates, primary, pairwise, p) ==
    LET scored == [i \in 1..Len(pg_candidates) |->
                      [name |-> pg_candidates[i],
                       score |-> primary[pg_candidates[i]]]]
        kept == SelectSeq(scored,
                    LAMBDA c : c.score >= ThresholdInt(
                                   p.fw_primary_similarity_threshold))
        primary_refined_candidates ==
            SortDescending(kept, [i \in 1..Len(kept) |-> kept[i].score])
        n == Len(primary_refined_candidates)
        linked == [i \in 1..n |->
                      [name |-> primary_refined_candidates[i].name,
                       score |-> primary_refined_candidates[i].score,
                       links |-> num_strong_links(
                                    primary_refined_candidates, pairwise, i,
                                    ThresholdInt(
                                      p.fw_pairwise_similarity_threshold))]]
        candidates_with_links ==
            SelectSeq(linked,
                      LAMBDA c : c.links >= p.min_strong_pairwise_links)
        sorted_links ==
            SortDescending(candidates_with_links,
                           [i \in 1..Len(candidates_with_links) |->
                               candidates_with_links[i].links * 1000
                               + candidates_with_links[i].score])
        final_names_after_filtering ==
            IF ~p.enable_pairwise_filter \/ n <= 1
            THEN [i \in 1..n |-> primary_refined_candidates[i].name]
            ELSE IF n <= p.min_strong_pairwise_links
            THEN [i \in 1..n |-> primary_refined_candidates[i].name]
            ELSE [i \in 1..Len(sorted_links) |-> sorted_links[i].name]
    IN IF pg_candidates = <<>> THEN <<>>
       ELSE SubSeq(final_names_after_filtering, 1,
                   IF p.limit_results < Len(final_names_after_filtering)
                   THEN p.limit_results
                   ELSE Len(final_names_after_filtering))

\* the parameters of a resolution
NameParams ==
    [fw_primary_similarity_threshold : {5, 8},
     fw_pairwise_similarity_threshold : {5, 8},
     min_strong_pairwise_links : {1, 2},
     enable_pairwise_filter : BOOLEAN,
     limit_results : {1, 3}]

\* q is p with one of the three filter parameters raised
Raised(p, q) ==
    \/ /\ q.fw_primary_similarity_threshold
              > p.fw_primary_similarity_threshold
       /\ q = [p EXCEPT !.fw_primary_similarity_threshold =
                            q.fw_primary_similarity_threshold]
    \/ /\ q.fw_pairwise_similarity_threshold
              > p.fw_pairwise_similarity_threshold
       /\ q = [p EXCEPT !.fw_pairwise_similarity_threshold =
                            q.fw_pairwise_similarity_threshold]
    \/ /\ q.min_strong_pairwise_links > p.min_strong_pairwise_links
       /\ q = [p EXCEPT !.min_strong_pairwise_links =
                            q.min_strong_pairwise_links]

InitNames ==
    /\ people = <<>>
    /\ orgs = <<>>
    /\ employment = <<>>
    /\ fullCache = NoGraph
    /\ collCache = NoGraph
    /\ op = "init"
    /\ args \in [pg_candidates : SeqsUpTo(CandNames, MaxCands),
                 primary : [CandNames -> FuzzScores],
                 pairwise : [NamePairs -> FuzzScores]]
    /\ ret = <<>>
    /\ hist = <<>>
    /\ inRecs = <<>>
    /\ clusters = NotClustered
    /\ calls = NoCalls
    /\ heap = <<>>
    /\ pool = NoPool

\* the same query name resolved against the same store twice, the second
\* time with one parameter raised
ResolveTwice(p, q) ==
    /\ op = "init"
    /\ Raised(p, q)
    /\ ret' = [before |-> _get_similar_person_names(
                              args.pg_candidates, args.primary,
                              args.pairwise, p),
               after |-> _get_similar_person_names(
                             args.pg_candidates, args.primary,
                             args.pairwise, q),
               p |-> p, q |-> q]
    /\ op' = "similar_names"
    /\ UNCHANGED <<calls, heap, pool, people, orgs, employment, fullCache, collCache, args,
                   hist, inRecs, clusters>>

NextNames == \E p, q \in NameParams : ResolveTwice(p, q)

SpecNames == InitNames /\ [][NextNames]_vars

\* C11: raising the primary threshold, the pairwise threshold or the
\* minimum strong-link count, the rest unchanged, returns a set of names
\* that is a subset of the set returned before the raise.
C11_Monotone ==
    op = "similar_names" => Range(ret.after) \subseteq Range(ret.before)

\* ------------------------------------------------- snapshot
\* what a snapshot entry and an employment row have in common
JobOf(r) ==
    <<r.person_id, r.org_id, r.rank, r.start_date, r.end_date>>

CoveringRows(es, d) ==
    {i \in 1..Len(es) : es[i].start_date <= d /\ d <= es[i].end_date}

\* C12: network_snapshot(d) returns exactly one entry for each employment
\* row with start_date <= d <= end_date and no entry for any other row, so
\* it has as many entries as there are such rows.
C12_SnapshotRoundTrip ==
    op = "network_snapshot" =>
        LET covering == CoveringRows(employment, args.target_date)
        IN /\ Len(ret.items) = Cardinality(covering)
           /\ \A i \in covering :
                  Cardinality({k \in 1..Len(ret.items) :
                                  JobOf(ret.items[k]) = JobOf(employment[i])})
                      = 1
           /\ \A k \in 1..Len(ret.items) :
                  \E i \in covering :
                      JobOf(ret.items[k]) = JobOf(employment[i])

\* a snapshot on the last day of one job, with another job left out
C12_Witness ==
    /\ op = "network_snapshot"
    /\ \E k \in 1..Len(ret.items) :
           ret.items[k].end_date = args.target_date
    /\ Len(ret.items) >= 2
    /\ Len(ret.items) < Len(employment)

\* ------------------------------------------------- clustering, repeated
\* the records of each cluster, cluster by cluster
Members(recs, cls) ==
    [c \in 1..Len(cls) |-> {recs[cls[c][k]] : k \in 1..Len(cls[c])}]

\* C13: against an unchanged store, two runs of cluster_employment_records
\* on the same records, each given in an order sorted by
\* (start_date, raw_name), return the same clusters: the same records in
\* each cluster and the clusters in the same order.
C13_Deterministic ==
    op = "cluster_again" =>
        /\ ret.ok = clusters.ok
        /\ ret.ok => Members(inRecs, ret.clusters)
                         = Members(inRecs, clusters.clusters)

\* ------------------------------------------------- C14
\* the enriched form of a scenario record against the current store
Enriched(r) == _enrich_record(orgs, r, 0).rec

ScenarioClustered == clusters.done /\ inRecs \in ScenarioInputs

OneClusterOfAll ==
    /\ clusters.ok
    /\ Len(clusters.clusters) = 1
    /\ Range(clusters.clusters[1]) = 1..Len(inRecs)

TitleWords ==
    {"Senior", "Assistant", "Director", "Board", "Member", "senior",
     "manager"}

\* str.lower() on one word
LowerWord(w) ==
    CASE w = "Senior" -> "senior"
      [] w = "Assistant" -> "assistant"
      [] w = "Director" -> "director"
      [] w = "Board" -> "board"
      [] w = "Member" -> "member"
      [] OTHER -> w

Lower(title) == [i \in 1..Len(title) |-> LowerWord(title[i])]

InitRank ==
    /\ people = <<>>
    /\ employment = <<>>
    /\ orgs = <<>>
    /\ fullCache = NoGraph
    /\ collCache = NoGraph
    /\ op = "init"
    /\ args \in [title : SeqsUpTo(TitleWords, MaxWords)]
    /\ ret = <<>>
    /\ hist = <<>>
    /\ inRecs = <<>>
    /\ clusters = NotClustered
    /\ calls = NoCalls
    /\ heap = <<>>
    /\ pool = NoPool

ParseRank ==
    /\ op = "init"
    /\ ret' = [score |-> parse_rank(Lower(args.title)),
               permits_overlap |-> is_permissible_overlap(Lower(args.title))]
    /\ op' = "parse_rank"
    /\ UNCHANGED <<calls, heap, pool, people, orgs, employment, fullCache, collCache, args,
                   hist, inRecs, clusters>>

NextRank == ParseRank

SpecRank == InitRank /\ [][NextRank]_vars

\* C15: parse("Senior Director") returns 24, parse("Assistant Director")
\* returns 18 and parse("Board Member") returns 0.
C15_RankScenario ==
    op = "parse_rank" =>
        /\ args.title = <<"Senior", "Director">> => ret.score = 24
        /\ args.title = <<"Assistant", "Director">> => ret.score = 18
        /\ args.title = <<"Board", "Member">> => ret.score = 0

\* ------------------------------------------------- C16
HasViolation(batch, idxs) ==
    \E k \in 1..Len(idxs) : CheckViolation(batch[idxs[k]])

RowsOfName(ps, n) == SelectSeq(ps, LAMBDA p : p.name = n)

JobsOfName(ps, es, n) == SelectSeq(es, LAMBDA e : ps[e.person_id].name = n)

\* the records of the first name of the batch fall into clusters that all
\* hold a record the store rejects
FirstNameFails(batch) ==
    LET group == GroupOf(batch, batch[1].clean_name)
        r == cluster_employment_records(orgs,
                 [k \in 1..Len(group) |-> batch[group[k]]])
    IN /\ r.ok
       /\ \A c \in 1..Len(r.clusters) :
              HasViolation(batch, [k \in 1..Len(r.clusters[c]) |->
                                      group[r.clusters[c][k]]])

\* the failed clusters left nothing behind
FailedClusterUndone(batch) ==
    LET name == batch[1].clean_name
    IN /\ RowsOfName(people', name) = RowsOfName(people, name)
       /\ JobsOfName(people', employment', name)
              = JobsOfName(people, employment, name)

\* every record of a name without a rejected record has its job row
OtherClustersKept(batch) ==
    \A i \in 1..Len(batch) :
        ~HasViolation(batch, GroupOf(batch, batch[i].clean_name)) =>
            \E j \in 1..Len(employment') :
                /\ people'[employment'[j].person_id].name = batch[i].clean_name
                /\ employment'[j].start_date = batch[i].start_date
                /\ employment'[j].end_date = batch[i].end_date

\* C16: when processing one cluster fails partway during
\* bulk_insert_records, none of that cluster's person or employment writes
\* remain in the store afterwards, the rows written for every other
\* cluster remain, and the batch continues with the next cluster.
C16_ClusterRollback ==
    [][\A batch \in Batches :
          (Ingest(batch) /\ FirstNameFails(batch)) =>
              (FailedClusterUndone(batch) /\ OtherClustersKept(batch))]_vars

\* ------------------------------------------------- C17
PathQueries == {"graph_shortest_path", "graph_temporal_path", "find_shortest_path"}

\* a person id of the query that no row of the people table has
UnknownIdGiven ==
    \E id \in Range(args.person1) \cup Range(args.person2) :
        id \notin 1..Len(people)

\* C17: a shortest-path query given a source or target person id that is
\* not in the store fails with NotFound instead of returning a path or an
\* empty list.
C17_UnknownIds ==
    (op \in PathQueries /\ UnknownIdGiven) => ret.kind = "not_found"

\* ------------------------------------------------- units over time
\* A date is a day number.  A NULL date, or a metadata key that is absent,
\* is NoDate.
NoDate == 0

\* date.isoformat() and the cast text::date
isoformat(d) == <<"iso", d>>

ToDate(text) == text[2]

\* '1900-01-01'::date and '9999-12-31'::date
EARLIEST == 0 - 1
LATEST == 9999

\* COALESCE((metadata->>key)::date, fallback)
CoalesceDate(d, fallback) == IF d = NoDate THEN fallback ELSE d

\* the temporal filter of the descendants queries
ActiveOn(o, target_date) ==
    /\ ToDate(target_date) >= CoalesceDate(o.first_observed, EARLIEST)
    /\ ToDate(target_date) <= CoalesceDate(o.last_observed, LATEST)

\* rows joined to a level of the hierarchy, in the order of the table
ChildrenOf(os, level) ==
    SelectSeq([i \in 1..Len(os) |-> i],
              LAMBDA i : \E k \in 1..Len(level) :
                             os[i].parent_org_id = level[k])

\* WITH RECURSIVE org_hierarchy: the anchor row, then level after level
RECURSIVE HierarchyFrom(_, _, _)
HierarchyFrom(os, level, fuel) ==
    IF level = <<>> \/ fuel = 0 THEN <<>>
    ELSE level \o HierarchyFrom(os, ChildrenOf(os, level), fuel - 1)

org_hierarchy(os, parent_id) ==
    HierarchyFrom(os, SelectSeq([i \in 1..Len(os) |-> i],
                                LAMBDA i : i = parent_id), Len(os))

\* a row of organizations as the dict _row_to_dict returns
OrgDict(os, i) ==
    [id |-> i, name |-> os[i].name, parent_org_id |-> os[i].parent_org_id,
     first_observed |-> os[i].first_observed,
     last_observed |-> os[i].last_observed]

\* OrganisationsRepository.get_all_descendants_at_date
get_all_descendants_at_date(os, parent_org_id, target_date) ==
    LET ids == SelectSeq(org_hierarchy(os, parent_org_id),
                         LAMBDA i : /\ i # parent_org_id
                                    /\ ActiveOn(os[i], target_date))
    IN [k \in 1..Len(ids) |-> OrgDict(os, ids[k])]

\* ORDER BY event_date ASC over a set of dates
RECURSIVE SortedDates(_)
SortedDates(S) ==
    IF S = {} THEN <<>>
    ELSE LET m == CHOOSE x \in S : \A y \in S : x <= y
         IN <<m>> \o SortedDates(S \ {m})

\* OrganisationsRepository.get_timeline_dates_for_subtree
get_timeline_dates_for_subtree(os, parent_org_id) ==
    LET sub == Range(org_hierarchy(os, parent_org_id))
        event_dates ==
            {os[i].first_observed : i \in {j \in sub : os[j].first_observed # NoDate}}
            \cup {os[i].last_observed : i \in {j \in sub : os[j].last_observed # NoDate}}
        sorted == SortedDates(event_dates)
    IN [k \in 1..Len(sorted) |-> isoformat(sorted[k])]

\* mutant: two lists differ when their lengths differ
ListsDiffer_len(orgs_now, previous_orgs) == Len(orgs_now) # Len(previous_orgs)

\* orgs != previous_orgs on two lists of dicts
ListsDiffer(orgs_now, previous_orgs) == orgs_now # previous_orgs

\* TemporalGraph.get_org_timeline_dates
get_org_timeline_dates(os, parent_org_id, only_distinct_changes) ==
    LET dates == get_timeline_dates_for_subtree(os, parent_org_id)
        items == SortedByKeys(dates, [i \in 1..Len(dates) |-> ToDate(dates[i])])
        org_list == [i \in 1..Len(items) |->
                        get_all_descendants_at_date(os, parent_org_id, items[i])]
        kept == SelectSeq([i \in 1..Len(items) |-> i],
                          LAMBDA i : \/ i = 1
                                     \/ ListsDiffer(org_list[i], org_list[i - 1]))
    IN IF only_distinct_changes THEN [k \in 1..Len(kept) |-> items[kept[k]]]
       ELSE dates

\* a NULL side of the join, and NULL details
NoRow == [id |-> 0, name |-> <<>>, metadata |-> <<>>]

StateRow(d) ==
    [id |-> d.id, name |-> d.name,
     metadata |-> <<d.first_observed, d.last_observed>>]

\* mutant: the rows of the start state with their match (LEFT JOIN)
FullOuterJoin_left(start_state, end_state) ==
    [k \in 1..Len(start_state) |->
        [s |-> start_state[k],
         e |-> IF \E j \in 1..Len(end_state) : end_state[j].id = start_state[k].id
               THEN end_state[CHOOSE j \in 1..Len(end_state) :
                                  end_state[j].id = start_state[k].id]
               ELSE NoRow]]

\* start_state s FULL OUTER JOIN end_state e ON s.id = e.id
FullOuterJoin(start_state, end_state) ==
    [k \in 1..Len(start_state) |->
        [s |-> start_state[k],
         e |-> IF \E j \in 1..Len(end_state) : end_state[j].id = start_state[k].id
               THEN end_state[CHOOSE j \in 1..Len(end_state) :
                                  end_state[j].id = start_state[k].id]
               ELSE NoRow]]
    \o LET rest == SelectSeq(end_state,
                       LAMBDA e : \A k \in 1..Len(start_state) :
                                      start_state[k].id # e.id)
       IN [k \in 1..Len(rest) |-> [s |-> NoRow, e |-> rest[k]]]

\* the SQL function get_org_descendants_diff
get_org_descendants_diff(os, p_parent_org_id, p_start_date, p_end_date) ==
    LET at_start == get_all_descendants_at_date(os, p_parent_org_id, p_start_date)
        at_end == get_all_descendants_at_date(os, p_parent_org_id, p_end_date)
        joined == FullOuterJoin([k \in 1..Len(at_start) |-> StateRow(at_start[k])],
                                [k \in 1..Len(at_end) |-> StateRow(at_end[k])])
    IN [k \in 1..Len(joined) |->
           [org_id |-> IF joined[k].s # NoRow THEN joined[k].s.id
                       ELSE joined[k].e.id,
            name |-> IF joined[k].e # NoRow THEN joined[k].e.name
                     ELSE joined[k].s.name,
            status |-> IF joined[k].s = NoRow THEN "added"
                       ELSE IF joined[k].e = NoRow THEN "removed"
                       ELSE "unchanged",
            details |-> joined[k].e.metadata]]

\* ------------------------------------------------- unit trees
UnitNames == <<"min1", "a", "b", "c", "x">>

FirstDates == {NoDate, 1, 3}
LastDates == {NoDate, 2, 3}
AskedDates == {1, 2, 3}

TimedRow(name, parent, first, last) ==
    [name |-> name, parent_org_id |-> parent, first_observed |-> first,
     last_observed |-> last]

\* organizations tables of n rows: row 1 is a root, every later row is a
\* root or the child of an earlier row
RECURSIVE OrgForests(_)
OrgForests(n) ==
    IF n = 1
    THEN { <<TimedRow(UnitNames[1], 0, f, NoDate)>> : f \in {NoDate, 1} }
    ELSE { Append(os, TimedRow(UnitNames[n], par, f, l)) :
             os \in OrgForests(n - 1), par \in 0..(n - 1),
             f \in FirstDates, l \in LastDates }

InitOrgs ==
    /\ people = <<>>
    /\ employment = <<>>
    /\ orgs \in OrgForests(1 + MaxUnits)
    /\ fullCache = NoGraph
    /\ collCache = NoGraph
    /\ op = "init"
    /\ args = <<>>
    /\ ret = <<>>
    /\ hist = <<>>
    /\ inRecs = <<>>
    /\ clusters = NotClustered
    /\ calls = NoCalls
    /\ heap = <<>>
    /\ pool = NoPool

\* TemporalGraph.get_org_timeline_dates
OrgTimelineDates(parent_org_id, only_distinct_changes) ==
    /\ op = "init"
    /\ ret' = ListRet(get_org_timeline_dates(orgs, parent_org_id,
                                             only_distinct_changes))
    /\ op' = "org_timeline_dates"
    /\ args' = [parent_org_id |-> parent_org_id,
                only_distinct_changes |-> only_distinct_changes]
    /\ UNCHANGED <<calls, heap, pool, people, orgs, employment, fullCache, collCache, hist,
                   inRecs, clusters>>

\* TemporalGraph.get_org_descendants_diff_between_dates
OrgDescendantsDiff(parent_org_id, start_date, end_date) ==
    /\ op = "init"
    /\ ret' = ListRet(get_org_descendants_diff(orgs, parent_org_id,
                          isoformat(start_date), isoformat(end_date)))
    /\ op' = "org_descendants_diff"
    /\ args' = [parent_org_id |-> parent_org_id,
                start_date |-> isoformat(start_date),
                end_date |-> isoformat(end_date)]
    /\ UNCHANGED <<calls, heap, pool, people, orgs, employment, fullCache, collCache, hist,
                   inRecs, clusters>>

NextOrgs ==
    \/ \E only_distinct_changes \in BOOLEAN :
           OrgTimelineDates(1, only_distinct_changes)
    \/ \E start_date, end_date \in AskedDates :
           OrgDescendantsDiff(1, start_date, end_date)

SpecOrgs == InitOrgs /\ [][NextOrgs]_vars

\* ------------------------------------------------- C18
\* unit i lies below root: root is its parent, or the parent of its parent,
\* and so on
RECURSIVE IsBelow(_, _, _, _)
IsBelow(os, i, root, fuel) ==
    IF os[i].parent_org_id = 0 \/ fuel = 0 THEN FALSE
    ELSE \/ os[i].parent_org_id = root
         \/ IsBelow(os, os[i].parent_org_id, root, fuel - 1)

\* the ids of the units below root that are active on day d
ActiveIds(os, root, d) ==
    { i \in 1..Len(os) :
        /\ i # root
        /\ IsBelow(os, i, root, Len(os))
        /\ os[i].first_observed = NoDate \/ os[i].first_observed <= d
        /\ os[i].last_observed = NoDate \/ d <= os[i].last_observed }

\* the positions of the raw dates that open a new set of active units
ChangePositions(os, root, raw) ==
    SelectSeq([i \in 1..Len(raw) |-> i],
              LAMBDA i : \/ i = 1
                         \/ ActiveIds(os, root, ToDate(raw[i]))
                                # ActiveIds(os, root, ToDate(raw[i - 1])))

\* C18: get_org_timeline_dates(root, distinct=true) returns the
\* subsequence of the sorted raw change dates in which a date is kept iff
\* it is the first date or the set of unit ids active under root on that
\* date differs from the set on the raw date just before it.
C18_TimelineDistinct ==
    (op = "org_timeline_dates" /\ args.only_distinct_changes) =>
        LET raw == get_org_timeline_dates(orgs, args.parent_org_id, FALSE)
            pos == ChangePositions(orgs, args.parent_org_id, raw)
        IN ret.items = [k \in 1..Len(pos) |-> raw[pos[k]]]

\* a date without a change was left out and a later date with one was kept
C18_Witness ==
    /\ op = "org_timeline_dates"
    /\ args.only_distinct_changes
    /\ LET raw == get_org_timeline_dates(orgs, args.parent_org_id, FALSE)
       IN /\ Len(raw) = 3
          /\ ret.items = <<raw[1], raw[3]>>

\* ------------------------------------------------- C19
EntriesOf(items, id) == { k \in 1..Len(items) : items[k].org_id = id }

IdsTagged(items, tags) ==
    { items[k].org_id : k \in { j \in 1..Len(items) : items[j].status \in tags } }

IdsOfRows(rows) == { rows[k].id : k \in 1..Len(rows) }

C20_FuzzyAllTime ==
    (op = "find_colleagues" /\ args.is_fuzzy) =>
        /\ ret.kind = "list"
        /\ \A i, j \in 1..Len(ret.items) :
              ret.items[i] = ret.items[j] => i = j

\* ------------------------------------------------- concurrent readers
\* GraphService keeps its graphs as objects: a cache attribute holds a
\* reference to a graph object or None, and so does a local variable of a
\* call.  In this specification fullCache and collCache hold references
\* (NoRef is None), heap holds the graph objects, and calls holds the
\* position of every reader between the statements of its call.
MaxReaders == 2

MaxCalls == 2

Readers == 1..MaxReaders

NoRef == 0

NoSnap == [ps |-> <<>>, os |-> <<>>, es |-> <<>>]

IdleCall == [pc |-> "idle", method |-> "none", phase |-> "none", all_data |-> NoSnap, G |-> NoRef, colleague_G |-> NoRef]

\* the object behind a reference
Deref(h, ref) == IF ref = NoRef THEN NoGraph ELSE h[ref].graph

\* the graph a finished build of this kind holds for the data it was given
BuiltGraph(kind, snap) ==
    IF kind = "colleague"
    THEN _build_colleague_graph(NoGraph, snap.ps, snap.os, snap.es)
    ELSE build_full_history_graph(NoGraph, snap.ps, snap.os, snap.es)

\* the local graph after the add_node loops and before the add_edge loops
NodesOnly(kind, snap) ==
    [BuiltGraph(kind, snap) EXCEPT
        !.edges = IF kind = "colleague" THEN <<>> ELSE {}]

\* mutant: the cache attribute is assigned as soon as the graph exists
Published_early(cacheRef, ref, pc) == ref

\* "self._cache = G" is the last statement of a build
Published(cacheRef, ref, pc) == IF pc = "publish" THEN ref ELSE cacheRef

CacheOf(phase) == IF phase = "colleague" THEN collCache ELSE fullCache

SetCache(phase, ref) ==
    /\ collCache' = IF phase = "colleague" THEN ref ELSE collCache
    /\ fullCache' = IF phase = "full" THEN ref ELSE fullCache

InitCache ==
    /\ people = <<>>
    /\ orgs = <<>>
    /\ employment = <<>>
    /\ fullCache = NoRef
    /\ collCache = NoRef
    /\ op = "init"
    /\ args = <<>>
    /\ ret = <<>>
    /\ hist = NoHist
    /\ inRecs = <<>>
    /\ clusters = NotClustered
    /\ calls = [started |-> 0, searched |-> NoRef,
                 of |-> [r \in Readers |-> IdleCall]]
    /\ heap = <<>>
    /\ pool = NoPool

\* the person ids the readers ask about
CacheQueries == { [person1 |-> <<1, 2>>, person2 |-> <<3>>] }

\* searched is the graph object the last search that returned ran over
SetCall(r, c, started, searched) ==
    calls' = [started |-> started, searched |-> searched,
              of |-> [calls.of EXCEPT ![r] = c]]

\* the rest of a search that has its graphs: no await is left, it runs to
\* its return statement
Finish(r, c, started, ref, h) ==
    /\ SetCall(r, IdleCall, started, ref)
    /\ op' = c.method
    /\ \E q \in CacheQueries :
          /\ args' = QueryArgs(q, TRUE, FALSE,
                               c.method = "graph_temporal_path", FALSE)
          /\ \E res \in
                IF c.method = "graph_temporal_path"
                THEN find_shortest_temporal_path(Deref(h, ref), q.person1,
                                                 q.person2, FALSE)
                ELSE find_shortest_path(Deref(h, ref), q.person1,
                                        q.person2, TRUE, FALSE) :
                ret' = res

\* the build goes on to its first await
Miss(r, c, started) ==
    /\ SetCall(r, [c EXCEPT !.pc = "fetch"], started, calls.searched)
    /\ UNCHANGED <<op, args, ret>>

\* "full_G = await self.build_full_history_graph()" of the temporal
\* search, which holds its colleague graph: h is the heap, full the full
\* cache at this statement
CheckFull(r, c, started, h, full) ==
    IF Truthy(Deref(h, full))
    THEN Finish(r, c, started, c.colleague_G, h)
    ELSE Miss(r, c, started)

\* a build returns ref to the call c of reader r
Returned(r, c, started, ref, h, full) ==
    IF c.method = "graph_temporal_path" /\ c.phase = "colleague"
    THEN CheckFull(r, [c EXCEPT !.phase = "full", !.colleague_G = ref,
                                !.G = NoRef, !.all_data = NoSnap],
                   started, h, full)
    ELSE IF c.method = "graph_temporal_path"
         THEN Finish(r, c, started, c.colleague_G, h)
         ELSE Finish(r, c, started, full, h)

\* "if self._cache: return self._cache", the first statement of a build
Check(r, c, started) ==
    IF Truthy(Deref(heap, CacheOf(c.phase)))
    THEN Returned(r, c, started, CacheOf(c.phase), heap, fullCache)
    ELSE Miss(r, c, started)

\* a request arrives: find_shortest_path builds the full graph,
\* find_shortest_temporal_path the colleague graph and then the full graph;
\* the call runs up to the first await of a build that finds no cached graph
Call(r, method) ==
    /\ calls.of[r].pc = "idle"
    /\ calls.started < MaxCalls
    /\ Check(r, [IdleCall EXCEPT !.method = method,
                                 !.phase = IF method = "graph_temporal_path"
                                           THEN "colleague" ELSE "full"],
             calls.started + 1)
    /\ UNCHANGED <<people, orgs, employment, fullCache, collCache, hist,
                   inRecs, clusters, heap, pool>>

\* "all_data = await self.query_service.get_all_employment_data()"
Fetch(r) ==
    LET c == calls.of[r]
    IN /\ c.pc = "fetch"
       /\ SetCall(r, [c EXCEPT !.pc = IF c.phase = "full" THEN "hierarchy"
                                      ELSE "nodes",
                               !.all_data = [ps |-> people, os |-> orgs,
                                             es |-> employment]],
                  calls.started, calls.searched)
       /\ UNCHANGED <<people, orgs, employment, fullCache, collCache, op,
                      args, ret, hist, inRecs, clusters, heap, pool>>

\* "org_hierarchy = await self.orgs_service.get_organization_hierarchy()":
\* the units are read as they are now, the employment rows were read before
Hierarchy(r) ==
    LET c == calls.of[r]
    IN /\ c.pc = "hierarchy"
       /\ SetCall(r, [c EXCEPT !.pc = "nodes", !.all_data.os = orgs],
                  calls.started, calls.searched)
       /\ UNCHANGED <<people, orgs, employment, fullCache, collCache, op,
                      args, ret, hist, inRecs, clusters, heap, pool>>

\* "G = nx.Graph()" and the add_node loops, on a new object
AddNodes(r) ==
    LET c == calls.of[r]
        ref == Len(heap) + 1
    IN /\ c.pc = "nodes"
       /\ heap' = Append(heap, [kind |-> c.phase, of |-> c.all_data,
                                graph |-> NodesOnly(c.phase, c.all_data)])
       /\ SetCall(r, [c EXCEPT !.pc = "edges", !.G = ref], calls.started,
                  calls.searched)
       /\ SetCache(c.phase, Published(CacheOf(c.phase), ref, c.pc))
       /\ UNCHANGED <<people, orgs, employment, op, args, ret, hist, inRecs,
                      clusters, pool>>

\* the add_edge loops on the object of this call, then
\* "self._cache = G; return G"
AddEdges(r) ==
    LET c == calls.of[r]
    IN /\ c.pc = "edges"
       /\ heap' = [heap EXCEPT ![c.G].graph = BuiltGraph(c.phase, c.all_data)]
       /\ SetCache(c.phase, Published(CacheOf(c.phase), c.G, "publish"))
       /\ Returned(r, c, calls.started, c.G, heap', fullCache')
       /\ UNCHANGED <<people, orgs, employment, hist, inRecs, clusters, pool>>

NextCache ==
    \/ \E batch \in CacheBatches : Ingest(batch)
    \/ \E r \in Readers :
           \E method \in {"graph_shortest_path", "graph_temporal_path"} :
               Call(r, method)
    \/ \E r \in Readers : Fetch(r)
    \/ \E r \in Readers : Hierarchy(r)
    \/ \E r \in Readers : AddNodes(r)
    \/ \E r \in Readers : AddEdges(r)

SpecCache == InitCache /\ [][NextCache]_vars

\* ------------------------------------------------- C21
\* the readers that are between the cache test and the assignment of the
\* cache attribute of one build
Rebuilding(kind) ==
    {r \in Readers :
        /\ calls.of[r].phase = kind
        /\ calls.of[r].pc \in {"fetch", "hierarchy", "nodes", "edges"}}

\* C21: for each graph cache at most one rebuild is in progress at any
\* time: of several readers that find the cache empty, one rebuilds and
\* the others do not start a second build of the same cache.
C21_SingleWriter ==
    \A kind \in {"colleague", "full"} : Cardinality(Rebuilding(kind)) <= 1

\* ------------------------------------------------- C22
\* a graph object whose build has run to its end
Complete(obj) == obj.graph = BuiltGraph(obj.kind, obj.of)

\* the references through which a reader can reach a graph object: the two
\* cache attributes and the colleague_G of a temporal search that is
\* waiting for its full graph
TakenRefs == ({fullCache, collCache} \cup {calls.of[r].colleague_G : r \in Readers}) \ {NoRef}

\* the number of calls that have returned
Finished(c) == c.started - Cardinality({r \in Readers : c.of[r].pc # "idle"})

\* C22: under any interleaving of readers and rebuilds, a cache reference
\* holds nothing or a completely built graph of its kind, the graph object
\* a reader took is not modified while the reader holds it, and a search
\* that returns has run over a completely built graph.
C22_NoTornReads ==
    [][/\ fullCache' # NoRef =>
              heap'[fullCache'].kind = "full" /\ Complete(heap'[fullCache'])
       /\ collCache' # NoRef =>
              /\ heap'[collCache'].kind = "colleague"
              /\ Complete(heap'[collCache'])
       /\ \A ref \in TakenRefs : heap'[ref] = heap[ref]
       /\ Finished(calls') > Finished(calls) =>
              /\ calls'.searched # NoRef
              /\ Complete(heap'[calls'.searched])
              /\ heap'[calls'.searched].kind =
                     IF op' = "graph_temporal_path" THEN "colleague"
                     ELSE "full"]_vars

\* a build of the colleague graph is in the cache, and one reader holds a
\* colleague graph with an edge while another reader is adding the edges
\* of its own build of the colleague graph
C22_Witness ==
    /\ collCache # NoRef
    /\ \E r1, r2 \in Readers :
           /\ calls.of[r1].colleague_G # NoRef
           /\ DOMAIN Deref(heap, calls.of[r1].colleague_G).edges # {}
           /\ calls.of[r2].pc = "edges"
           /\ calls.of[r2].phase = "colleague"

\* ------------------------------------------------- C23
\* The assignment rule as it is stated: one total per compatible cluster,
\* the cohesion against each member counted once; the earliest cluster with
\* the maximum total is joined when the total reaches the threshold.
RECURSIVE StatedScan(_, _, _, _)
StatedScan(rec, cs, i, best) ==
    IF i > Len(cs) THEN best
    ELSE IF ~IsCompatible(rec, cs[i]) THEN StatedScan(rec, cs, i + 1, best)
    ELSE LET total == SumSeq([k \in 1..Len(cs[i]) |->
                         _calculate_cohesion_score(rec, cs[i][k])])
         IN StatedScan(rec, cs, i + 1,
                       IF total > best.score
                       THEN [index |-> i, score |-> total] ELSE best)

StatedPlace(cs, rec) ==
    LET best == StatedScan(rec, cs, 1, [index |-> 0, score |-> 0 - 999])
    IN IF best.index # 0 /\ best.score >= 1
       THEN [cs EXCEPT ![best.index] = Append(@, rec)]
       ELSE Append(cs, <<rec>>)

RECURSIVE StatedAssign(_, _, _)
StatedAssign(sorted, i, cs) ==
    IF i > Len(sorted) THEN cs
    ELSE StatedAssign(sorted, i + 1, StatedPlace(cs, sorted[i]))

StatedClusters(os, raw_records) ==
    LET cs == StatedAssign(
                  SortByStart([i \in 1..Len(raw_records) |->
                      _enrich_record(os, raw_records[i], i).rec]), 1, <<>>)
    IN [c \in 1..Len(cs) |-> [k \in 1..Len(cs[c]) |-> cs[c][k].idx]]

\* C23: each record, taken in ascending start_date order, is scored against
\* every cluster with no hard conflict by summing its cohesion against each
\* member exactly once; it joins the cluster with the maximum such total if
\* that total is at least 1, and otherwise opens a new cluster.
C23_SinglePass ==
    (clusters.done /\ clusters.ok) =>
        clusters.clusters = StatedClusters(orgs, inRecs)

\* ------------------------------------------------- C24
\* the enriched records in the order they are placed
Placed ==
    SortByStart([i \in 1..Len(inRecs) |-> _enrich_record(orgs, inRecs[i], i).rec])

\* the place of every input record in that order
PlaceOf(placed) ==
    [idx \in 1..Len(placed) |->
        CHOOSE j \in 1..Len(placed) : placed[j].idx = idx]

\* the clusters as they were when the j-th record was placed: clusters are
\* created and filled in placement order
ClustersBefore(placed, at, j) ==
    LET n == Cardinality({c \in 1..Len(clusters.clusters) :
                             \E k \in 1..Len(clusters.clusters[c]) :
                                 at[clusters.clusters[c][k]] < j})
    IN [c \in 1..n |->
           LET early == SelectSeq(clusters.clusters[c],
                                  LAMBDA idx : at[idx] < j)
           IN [k \in 1..Len(early) |-> placed[at[early[k]]]]]

\* the cluster the record rec is in
ClusterOf(rec) ==
    CHOOSE c \in 1..Len(clusters.clusters) :
        rec.idx \in Range(clusters.clusters[c])

\* the totals of the clusters cs for rec, the cohesion against each member
\* counted once; a cluster with a hard conflict has none
Totals(rec, cs) ==
    [c \in 1..Len(cs) |->
        IF IsCompatible(rec, cs[c])
        THEN <<SumSeq([k \in 1..Len(cs[c]) |->
                          _calculate_cohesion_score(rec, cs[c][k])])>>
        ELSE <<>>]

\* the compatible clusters that share the maximum total, which reaches the
\* threshold
Tied(totals) ==
    {c \in 1..Len(totals) :
        /\ totals[c] # <<>>
        /\ totals[c][1] >= 1
        /\ \A d \in 1..Len(totals) :
               totals[d] # <<>> => totals[d][1] <= totals[c][1]}

\* C24: when two or more compatible clusters have the same maximum
\* cohesion total for a record, the record is assigned to the one created
\* earliest.
C24_TieBreak ==
    (clusters.done /\ clusters.ok) =>
        \A placed \in {Placed} : \A at \in {PlaceOf(placed)} :
            \A j \in 1..Len(placed) :
                \A tied \in {Tied(Totals(placed[j], ClustersBefore(placed, at, j)))} :
                    Cardinality(tied) >= 2 =>
                        \A c \in tied : ClusterOf(placed[j]) <= c

\* ------------------------------------------------- C25
\* the candidates that survive stage B, as places in pg_candidates
SurvivorsB(p) ==
    {i \in 1..Len(args.pg_candidates) :
        args.primary[args.pg_candidates[i]]
            >= ThresholdInt(p.fw_primary_similarity_threshold)}

\* the other survivors a survivor has a pairwise score of gamma or more with
StrongLinks(p, i) ==
    Cardinality({j \in SurvivorsB(p) \ {i} :
                    token_set_ratio(args.pairwise, args.pg_candidates[i],
                                    args.pg_candidates[j])
                        >= ThresholdInt(p.fw_pairwise_similarity_threshold)})

\* stage C runs: the filter is enabled and more than max(1, L) survive
StageCRuns(p) ==
    /\ p.enable_pairwise_filter
    /\ Cardinality(SurvivorsB(p)) > 1
    /\ Cardinality(SurvivorsB(p)) > p.min_strong_pairwise_links

\* the survivors the result is drawn from, and what they are ordered by
Eligible(p) ==
    IF StageCRuns(p)
    THEN {i \in SurvivorsB(p) : StrongLinks(p, i) >= p.min_strong_pairwise_links}
    ELSE SurvivorsB(p)

OrderKey(p, i) ==
    IF StageCRuns(p)
    THEN <<StrongLinks(p, i), args.primary[args.pg_candidates[i]]>>
    ELSE <<0, args.primary[args.pg_candidates[i]]>>

KeyAtLeast(k1, k2) == k1[1] > k2[1] \/ (k1[1] = k2[1] /\ k1[2] >= k2[2])

\* res is the eligible survivors in descending key order, cut to the first K
IsStatedResult(res, p) ==
    /\ Len(res) = IF Cardinality(Eligible(p)) < p.limit_results
                  THEN Cardinality(Eligible(p)) ELSE p.limit_results
    /\ \E f \in [1..Len(res) -> Eligible(p)] :
           /\ \A k, l \in 1..Len(res) : k # l => f[k] # f[l]
           /\ \A k \in 1..Len(res) : res[k] = args.pg_candidates[f[k]]
           /\ \A k \in 1..(Len(res) - 1) :
                  KeyAtLeast(OrderKey(p, f[k]), OrderKey(p, f[k + 1]))
           /\ \A i \in Eligible(p) \ {f[k] : k \in 1..Len(res)} :
                  \A k \in 1..Len(res) :
                      KeyAtLeast(OrderKey(p, f[k]), OrderKey(p, i))

OverlappingPairs ==
    {{PersonNode(p), PersonNode(q)} : <<p, q>> \in
        {pq \in (1..Len(people)) \X (1..Len(people)) :
            /\ pq[1] # pq[2]
            /\ \E u \in 1..Len(orgs) :
                   ColleaguesAt(employment, pq[1], u, pq[2])}}

\* the colleague graph in the cache is the one built from the store as it is
ColleagueGraphBuilt ==
    /\ op = "graph_temporal_path"
    /\ collCache = _build_colleague_graph(NoGraph, people, orgs, employment)

\* C26: the colleague graph has an edge between two person nodes iff the
\* two are distinct persons holding employments at a common unit whose date
\* intervals overlap (inclusive); it has no self-loop even when one person
\* holds two overlapping employments at the same unit, and every unit id in
\* an edge's unit list is a unit at which the two persons overlapped.
C26_ColleagueEdges ==
    ColleagueGraphBuilt =>
        /\ DOMAIN collCache.edges = OverlappingPairs
        /\ \A e \in DOMAIN collCache.edges :
               /\ Cardinality(e) = 2
               /\ \A k \in 1..Len(collCache.edges[e]) :
                      \E p, q \in 1..Len(people) :
                          /\ e = {PersonNode(p), PersonNode(q)}
                          /\ ColleaguesAt(employment, p,
                                          collCache.edges[e][k], q)

\* ------------------------------------------------- C28
\* the records of a batch whose employment row is in the store
RecordsStored(batch) ==
    {i \in 1..Len(batch) :
        \E j \in 1..Len(employment) :
            /\ people[employment[j].person_id].clean_name = batch[i].clean_name
            /\ orgs[employment[j].org_id].url = batch[i].url
            /\ CoalesceRank(employment[j].rank) = CoalesceRank(batch[i].rank)
            /\ employment[j].start_date = batch[i].start_date
            /\ employment[j].end_date = batch[i].end_date}

\* C28: for every batch, including one in which a cluster fails after some
\* of its employment rows were already counted, bulk_insert_records returns
\* successful + failed = total_processed = number of input records, and
\* successful counts only employment rows that are in the store when the
\* call returns.
C28_IngestCounts ==
    op = "ingest" =>
        /\ ret.total_processed = Len(args)
        /\ ret.successful + ret.failed = ret.total_processed
        /\ ret.successful <= Cardinality(RecordsStored(args))


C29_AbortedRun ==
    /\ op = "preseed"
    /\ hist.lastKind = "preseed_aborted"
    /\ ret = [created |-> 0, updated |-> 0, failed |-> Len(args)]
    /\ \E k \in 1..Len(args) : find_by_url(orgs, args[k].url) # 0


\* ------------------------------------------------- DatabaseConnection
\* get_cursor and execute_with_retry, one step per library call; every
\* library call either succeeds, raises psycopg2.InterfaceError or
\* OperationalError ("conn"), or raises another Exception ("other").
\* The store functions are synchronous and no thread is started, so one
\* call finishes before the next begins.
MaxRetries == 2

Outcomes == {"ok", "conn", "other"}

\* calls: the call in progress; tries counts the with-blocks begun, errs
\* lists what each failed attempt raised out of get_cursor
NoCall == [pc |-> "idle", retries |-> 0, attempt |-> 0, tries |-> 0, errs |-> <<>>, exc |-> "none", conn |-> FALSE, entered |-> FALSE, body |-> "no", commit |-> "no", rollback |-> "no", result |-> "none"]

InitPool ==
    /\ people = <<>>
    /\ orgs = <<>>
    /\ employment = <<>>
    /\ fullCache = NoGraph
    /\ collCache = NoGraph
    /\ op = "none"
    /\ args = <<>>
    /\ ret = <<>>
    /\ hist = NoHist
    /\ inRecs = <<>>
    /\ clusters = NotClustered
    /\ heap = <<>>
    /\ calls = NoCall
    /\ pool = [out |-> 0, started |-> 0, done |-> <<>>]

\* except (psycopg2.InterfaceError, psycopg2.OperationalError)
IsConnectionError_any(kind) == TRUE

IsConnectionError(kind) == kind = "conn"

\* if conn: self.pool.putconn(conn)
putconn_leak(out, conn) == out

putconn(out, conn) == IF conn THEN out - 1 ELSE out

\* with self.get_cursor(...) begins: conn = None
Attempt(c) ==
    [c EXCEPT !.pc = "getconn", !.tries = @ + 1, !.exc = "none",
              !.conn = FALSE, !.entered = FALSE, !.body = "no",
              !.commit = "no", !.rollback = "no"]

\* the two except clauses of execute_with_retry, kind having left the
\* with statement
Caught(c, kind) ==
    LET e == [c EXCEPT !.errs = Append(@, kind)]
    IN IF IsConnectionError(kind)
       THEN IF c.attempt + 1 > c.retries
            THEN [e EXCEPT !.attempt = @ + 1, !.pc = "idle",
                           !.result = "raised_conn"]
            ELSE Attempt([e EXCEPT !.attempt = @ + 1])
       ELSE [e EXCEPT !.pc = "idle", !.result = "raised_other"]

\* get_cursor is left with the connection dealt with: the with statement
\* either falls through to the return or raises c.exc
Leave(c) ==
    IF c.exc = "none" THEN [c EXCEPT !.pc = "idle", !.result = "returned"]
    ELSE Caught(c, c.exc)

Settle(c, out) ==
    /\ calls' = c
    /\ pool' = [pool EXCEPT !.out = out,
                            !.done = IF c.pc = "idle"
                                     THEN Append(@, [result |-> c.result,
                                                     tries |-> c.tries])
                                     ELSE @]
    /\ UNCHANGED <<people, orgs, employment, fullCache, collCache, op, args,
                   ret, hist, inRecs, clusters, heap>>

\* execute_with_retry(query, retries=retries): attempt = 0, first pass of
\* the while test
Execute(retries) ==
    /\ calls.pc = "idle"
    /\ pool.started < MaxCalls
    /\ calls' = Attempt([NoCall EXCEPT !.retries = retries])
    /\ pool' = [pool EXCEPT !.started = @ + 1]
    /\ UNCHANGED <<people, orgs, employment, fullCache, collCache, op, args,
                   ret, hist, inRecs, clusters, heap>>

\* conn = self.pool.getconn(); when it raises conn is still None and the
\* outer finally puts nothing back
GetConn(outcome) ==
    /\ calls.pc = "getconn"
    /\ IF outcome = "ok"
       THEN Settle([calls EXCEPT !.pc = "cursor", !.conn = TRUE],
                   pool.out + 1)
       ELSE Settle(Caught(calls, outcome), putconn(pool.out, FALSE))

\* cursor = conn.cursor(...): raising here skips the inner try
Cursor(outcome) ==
    /\ calls.pc = "cursor"
    /\ IF outcome = "ok"
       THEN Settle([calls EXCEPT !.pc = "body", !.entered = TRUE], pool.out)
       ELSE Settle([calls EXCEPT !.pc = "putconn", !.exc = outcome],
                   pool.out)

\* the body of the with: cursor.execute and cursor.fetchall
Body(outcome) ==
    /\ calls.pc = "body"
    /\ IF outcome = "ok"
       THEN Settle([calls EXCEPT !.pc = "commit", !.body = "ok"], pool.out)
       ELSE Settle([calls EXCEPT !.pc = "rollback", !.body = "raised",
                                 !.exc = outcome], pool.out)

\* conn.commit(), inside the inner try
Commit(outcome) ==
    /\ calls.pc = "commit"
    /\ IF outcome = "ok"
       THEN Settle([calls EXCEPT !.pc = "close", !.commit = "ok"], pool.out)
       ELSE Settle([calls EXCEPT !.pc = "rollback", !.commit = "failed",
                                 !.exc = outcome], pool.out)

\* except Exception: conn.rollback(); raise -- an exception of rollback
\* replaces the one being handled
Rollback(outcome) ==
    /\ calls.pc = "rollback"
    /\ IF outcome = "ok"
       THEN Settle([calls EXCEPT !.pc = "close", !.rollback = "ok"],
                   pool.out)
       ELSE Settle([calls EXCEPT !.pc = "close", !.rollback = "failed",
                                 !.exc = outcome], pool.out)

\* finally: cursor.close()
Close(outcome) ==
    /\ calls.pc = "close"
    /\ IF outcome = "ok"
       THEN Settle([calls EXCEPT !.pc = "putconn"], pool.out)
       ELSE Settle([calls EXCEPT !.pc = "putconn", !.exc = outcome],
                   pool.out)

\* finally: if conn: self.pool.putconn(conn), then the with statement ends
PutConn ==
    /\ calls.pc = "putconn"
    /\ Settle(Leave([calls EXCEPT !.conn = FALSE]),
              putconn(pool.out, calls.conn))

NextPool ==
    \/ \E retries \in 0..MaxRetries : Execute(retries)
    \/ \E outcome \in Outcomes : GetConn(outcome)
    \/ \E outcome \in Outcomes : Cursor(outcome)
    \/ \E outcome \in Outcomes : Body(outcome)
    \/ \E outcome \in Outcomes : Commit(outcome)
    \/ \E outcome \in Outcomes : Rollback(outcome)
    \/ \E outcome \in Outcomes : Close(outcome)
    \/ PutConn

SpecPool == InitPool /\ [][NextPool]_vars

\* C27: a call makes at most retries + 1 attempts; every attempt but the
\* last raised a connection error and was followed by one more attempt;
\* an attempt that raises any other error ends the call with that error
\* at once; a connection error on the last allowed attempt is raised; with
\* retries = 1 a first connection error is followed by exactly one more
\* attempt
C27_StoreRetry ==
    \A c \in {calls} :
        /\ c.tries <= c.retries + 1
        /\ \A k \in 1..Len(c.errs) :
              /\ k < Len(c.errs) => c.errs[k] = "conn"
              /\ c.errs[k] = "other"
                    => c.pc = "idle" /\ c.result = "raised_other"
                       /\ c.tries = k
              /\ c.errs[k] = "conn" /\ k <= c.retries
                    => c.tries >= k + 1
              /\ c.errs[k] = "conn" /\ k = c.retries + 1
                    => c.pc = "idle" /\ c.result = "raised_conn"
        /\ c.pc # "idle" => c.tries = Len(c.errs) + 1
        /\ c.result = "returned" => c.tries = Len(c.errs) + 1
        /\ c.result \in {"raised_conn", "raised_other"}
              => c.tries = Len(c.errs) /\ c.tries >= 1
        /\ c.retries = 1 /\ c.pc = "idle" /\ Len(c.errs) >= 1
              /\ c.errs[1] = "conn" => c.tries = 2

\* the default call: the first attempt lost the connection while the
\* query ran, the one retry lost it again, and the error was raised
C27_Witness ==
    /\ calls.pc = "idle"
    /\ calls.retries = 1
    /\ calls.errs = <<"conn", "conn">>
    /\ calls.result = "raised_conn"
    /\ calls.rollback # "no"

\* C30: the pool has a connection out exactly while a get_cursor holds
\* one, so none is out once the calls have finished; the connection goes
\* back when get_cursor is left, after a commit when the block ended
\* normally (and a rollback as well when that commit raised) and after a
\* rollback alone when the block raised
C30_ConnectionsReturned ==
    /\ [](/\ pool.out = (IF calls.conn THEN 1 ELSE 0)
          /\ calls.conn => calls.pc \in {"cursor", "body", "commit",
                                          "rollback", "close", "putconn"}
          /\ calls.pc = "idle" => pool.out = 0)
    /\ [][calls.conn /\ ~calls'.conn
            => /\ calls.pc = "putconn"
               /\ pool'.out = pool.out - 1
               /\ calls.entered => calls.body # "no"
               /\ calls.body = "ok"
                     => /\ calls.commit # "no"
                        /\ calls.rollback # "no" <=> calls.commit = "failed"
               /\ calls.body = "raised"
                     => calls.commit = "no" /\ calls.rollback # "no"]_vars

\* two calls done, the first answered after a retry, the second raised
\* after a failed commit and its rollback; nothing is checked out
C30_Witness ==
    /\ calls.pc = "idle"
    /\ pool.out = 0
    /\ Len(pool.done) = 2
    /\ pool.done[1] = [result |-> "returned", tries |-> 2]
    /\ pool.done[2].result \in {"raised_conn", "raised_other"}
    /\ calls.commit = "failed"
    /\ calls.rollback = "ok"

====
